---- MODULE Spec2Model ----
(***************************************************************************)
(* A model of the access-control subsystem of mcp-builder's financial data *)
(* server: the sliding-window RateLimiter (middleware/rate-limiter.ts) and *)
(* the TokenStorage (auth/token-storage.ts), both on a shared Redis store. *)
(*                                                                         *)
(* Time is one wall clock in milliseconds (Date.now()); the Redis server   *)
(* is taken to run on the same clock.  Every await of the source is a      *)
(* separate step, so that calls of several callers interleave.             *)
(***************************************************************************)
EXTENDS Integers, Sequences, FiniteSets, Bags, TLC

(***************************************************************************)
(* Bounds of the model.                                                    *)
(***************************************************************************)
NumCallers == 2           \* concurrent callers of the rate limiter
MaxTime == 1              \* the clock visits the offsets 0..MaxTime of each window
MaxCalls == 3             \* rate limiter operations in one behaviour
MaxLimit == 2             \* the customConfig.maxRequests callers pass
ConfigWindowMs == 1001    \* config.rateLimit.windowMs of the modelled deployment
ConfigMaxRequests == 1    \* config.rateLimit.maxRequests of the modelled deployment
MaxTsOps == 2             \* token store operations in one behaviour
MaxScopes == 2            \* the length of a scope list
MaxMwOps == 1             \* AuthMiddleware operations in one behaviour

(***************************************************************************)
(* Program constants.                                                      *)
(***************************************************************************)
MsPerSecond == 1000
FloorSeconds == 60
GlobalFactor == 10

VARIABLES
    clock,      \* Date.now(), also the Redis server's time
    redisUp,    \* whether a Redis command succeeds
    rlZset,     \* Redis sorted sets of the rate limiter: key -> set of [member, score]
    rlExpire,   \* Redis TTL of each rate-limit key, as the instant it expires
    rlPc,       \* caller -> "idle" | "called" (between Date.now() and the eval)
    rlCall,     \* caller -> the arguments of its checkRateLimit call in flight
    rlLast,     \* the last rate limiter operation completed, with its result
    rlServed,   \* history: the checks Redis served since the key's last reset
    rlFresh,    \* history: the keys reset and not checked since
    rlOps,      \* the number of rate limiter operations completed
    tsStore,    \* Redis string keys of the token store: key -> value and expiry
    tsPc,       \* caller -> the step of its token store call
    tsCall,     \* caller -> the arguments and locals of that call
    tsLast,     \* the last token store operation completed, with its result
    tsGhost,    \* history: pair -> the completed storeToken not overwritten since
    tsOwner,    \* history: pair -> the caller whose writes are the only recent ones
    tsOps,      \* the number of token store operations begun
    mwLast,     \* the last AuthMiddleware operation completed, if none has begun since
    mwCall,     \* the middleware call awaiting authenticate, if any
    oaPkce,     \* history: the PKCE parameters generatePKCE returned last
    oaCall,     \* the OAuthClient call awaiting its HTTP response, if any
    oaLast,     \* the last OAuthClient call completed, with its result
    lgConfig,   \* config.app as the Logger reads it: logLevel, logFormat, isProduction
    lgSink,     \* the lines the Logger has written to the console streams
    lgOps,      \* the number of Logger calls made
    amConfig,   \* the AuthConfig of the AuthManager, once constructed
    amLast,     \* the last AuthManager.authenticate call, with its result
    aqMax,      \* maxConcurrency of the AsyncQueue, once constructed
    aqQueue,    \* AsyncQueue.queue: the wrappers waiting, as operation numbers
    aqRunning,  \* AsyncQueue.currentRunning
    aqState,    \* operation -> "new" | "queued" | "started" | "settled" | "delivered" | "done"
    aqOutcome,  \* operation -> what its own promise settled with, once it has
    aqPromise,  \* operation -> what the promise add returned settled with, once it has
    aqStarted,  \* history: the operations in the order they were invoked
    rtCall,     \* the retry call: its arguments, loop variables and what it did
    msConfig,   \* MCPServer.config, once constructed
    msRunning,  \* MCPServer.running
    msListeners,\* the number of 'data' listeners the server has put on process.stdin
    msEnded,    \* whether process.stdin has emitted 'end'
    msTools,    \* MCPServer.tools: name -> the definition set last, if any
    msHandlers, \* name -> the listeners of the event tool:name, in the order added
    msLog       \* history: the lines arrived on stdin, how each was handled and answered

rlVars == <<rlZset, rlExpire, rlPc, rlCall, rlLast, rlServed, rlFresh, rlOps>>
tsVars == <<tsStore, tsPc, tsCall, tsLast, tsGhost, tsOwner, tsOps>>
mwVars == <<mwLast, mwCall>>
oaVars == <<oaPkce, oaCall, oaLast>>
lgVars == <<lgConfig, lgSink, lgOps>>
amVars == <<amConfig, amLast>>
aqVars == <<aqMax, aqQueue, aqRunning, aqState, aqOutcome, aqPromise, aqStarted>>
rtVars == <<rtCall>>
msVars == <<msConfig, msRunning, msListeners, msEnded, msTools, msHandlers, msLog>>
utilVars == <<amVars, aqVars, rtVars, msVars>>
otherVars == <<mwVars, oaVars, lgVars, utilVars>>
\* What the utilities of the MCP server toolkit leave unchanged.
baseVars == <<clock, redisUp, rlVars, tsVars, mwVars, oaVars, lgVars>>
vars == <<clock, redisUp, rlVars, tsVars, otherVars>>
\* What each utility leaves unchanged besides its own variables.
amRest == <<baseVars, aqVars, rtVars, msVars>>
aqRest == <<baseVars, amVars, rtVars, msVars>>
rtRest == <<baseVars, amVars, aqVars, msVars>>
msRest == <<baseVars, amVars, aqVars, rtVars>>

Callers == 1..NumCallers
\* An optional value (a field that may be undefined, a nil reply, a key with no
\* TTL) is the empty sequence or a sequence of one value.
Absent == <<>>
Some(x) == <<x>>
NoExpire == Absent

\* Math.ceil(x / d) for integers x and d > 0.
Ceil(x, d) == -((-x) \div d)

\* JavaScript's  x || d  on a number.
OrElse(x, d) == IF x = 0 THEN d ELSE x

SetMin(S) == CHOOSE x \in S : \A y \in S : x <= y

\* Math.max(0, x)
Max0(x) == IF x > 0 THEN x ELSE 0

(***************************************************************************)
(* Keys.                                                                   *)
(***************************************************************************)
generateKey(userId, clientId, endpoint) ==
    "rate_limit:" \o clientId \o ":" \o userId \o ":" \o endpoint

Endpoints == {"e1"}

globalEndpoint(endpoint) == "global:" \o endpoint

\* The (userId, clientId, endpoint) triples callers present.
UserTriples ==
    { <<"u1", "c1", "e1">>,
      <<"global", "system", "global:e1">> }

globalKey(endpoint) == generateKey("global", "system", globalEndpoint(endpoint))

RLKeys ==
    { generateKey(t[1], t[2], t[3]) : t \in UserTriples }
        \cup { globalKey(e) : e \in Endpoints }

(***************************************************************************)
(* The Redis commands of the Lua script, on one sorted set.                *)
(***************************************************************************)
\* Mutant: the upper end of the range taken as exclusive.
ZRemRangeByScoreExclusive(z, max) == { e \in z : ~(e.score < max) }

\* ZREMRANGEBYSCORE key -inf max: removes the elements with score <= max.
ZRemRangeByScore(z, max) == { e \in z : ~(e.score <= max) }

ZCard(z) == Cardinality(z)

\* ZADD key score member: a member occurs once; adding it again moves its score.
ZAdd(z, score, member) ==
    { e \in z : e.member # member } \cup { [member |-> member, score |-> score] }

\* ZRANGE key 0 0 WITHSCORES, element [2]: the lowest score, nil on an empty set.
ZRangeFirstScore(z) ==
    IF z = {} THEN Absent ELSE Some(SetMin({ e.score : e \in z }))

Scores(z) == { e.score : e \in z }

(***************************************************************************)
(* checkRateLimit's Lua script, evaluated atomically by Redis on the       *)
(* sorted set z of one key at server time serverNow.  It yields the new    *)
(* set, the key's new expiry and the reply {allowed, current, remaining,   *)
(* reset_time}; "pruned" records what ZREMRANGEBYSCORE removed.            *)
(***************************************************************************)
LuaScript(z, expire, window_start, now, max_requests, window_ms, serverNow) ==
    LET kept == ZRemRangeByScore(z, window_start)
        current == ZCard(kept)
        oldest == ZRangeFirstScore(kept)
        reset_time == IF oldest # Absent THEN oldest[1] + window_ms ELSE now + window_ms
    IN  IF current < max_requests
        THEN [ zset |-> ZAdd(kept, now, now),
               expire |-> Some(serverNow + Ceil(window_ms, MsPerSecond) * MsPerSecond),
               reply |-> <<1, current + 1, max_requests - current - 1, now + window_ms>>,
               pruned |-> Scores(z) \ Scores(kept) ]
        ELSE [ zset |-> kept,
               expire |-> IF kept = {} THEN NoExpire ELSE expire,
               reply |-> <<0, current, 0, reset_time>>,
               pruned |-> Scores(z) \ Scores(kept) ]

\* Mutant: retryAfter rounded down instead of up.
RateLimitResultOfFloor(reply, now, maxRequests, windowMs) ==
    LET allowed == reply[1] = 1
        resetTime == reply[4]
    IN  [ allowed |-> allowed,
          limit |-> maxRequests,
          current |-> OrElse(reply[2], 0),
          remaining |-> OrElse(reply[3], 0),
          resetTime |-> OrElse(resetTime, now + windowMs),
          retryAfter |-> IF ~allowed /\ resetTime # 0
                         THEN Some((resetTime - now) \div MsPerSecond)
                         ELSE Absent ]

\* The RateLimitResult checkRateLimit builds from the script's reply.
RateLimitResultOf(reply, now, maxRequests, windowMs) ==
    LET allowed == reply[1] = 1
        resetTime == reply[4]
    IN  [ allowed |-> allowed,
          limit |-> maxRequests,
          current |-> OrElse(reply[2], 0),
          remaining |-> OrElse(reply[3], 0),
          resetTime |-> OrElse(resetTime, now + windowMs),
          retryAfter |-> IF ~allowed /\ resetTime # 0
                         THEN Some(Ceil(resetTime - now, MsPerSecond))
                         ELSE Absent ]

\* Mutant: the catch block failing closed.
FailClosedResult(now, maxRequests, windowMs) ==
    [ allowed |-> FALSE,
      limit |-> maxRequests,
      current |-> maxRequests,
      remaining |-> 0,
      resetTime |-> now + windowMs,
      retryAfter |-> Absent ]

\* The result of checkRateLimit's catch block: fail open.
FailOpenResult(now, maxRequests, windowMs) ==
    [ allowed |-> TRUE,
      limit |-> maxRequests,
      current |-> 0,
      remaining |-> maxRequests,
      resetTime |-> now + windowMs,
      retryAfter |-> Absent ]

NoResult ==
    [ allowed |-> FALSE, limit |-> 0, current |-> 0, remaining |-> 0,
      resetTime |-> 0, retryAfter |-> Absent ]

NoCall ==
    [ via |-> "none", key |-> "", now |-> 0, windowStart |-> 0,
      maxRequests |-> 0, windowMs |-> 0 ]

\* The record of a completed operation: its call, what it met and its outcome.
Op(kind, c, failed, raised, before, pruned, afterReset, res) ==
    [ kind |-> kind, via |-> c.via, key |-> c.key, now |-> c.now,
      maxRequests |-> c.maxRequests, windowMs |-> c.windowMs,
      failed |-> failed, raised |-> raised,
      before |-> before, pruned |-> pruned, afterReset |-> afterReset,
      res |-> res ]

NoOp == Op("none", NoCall, FALSE, FALSE, {}, {}, FALSE, NoResult)

InFlight == Cardinality({ p \in Callers : rlPc[p] # "idle" })

(***************************************************************************)
(* checkRateLimit up to its await: the configuration is merged, the key    *)
(* generated and Date.now() read.                                          *)
(***************************************************************************)
BeginCheck(p, via, userId, clientId, endpoint, maxRequests, windowMs) ==
    /\ rlPc[p] = "idle"
    /\ rlOps + InFlight < MaxCalls
    /\ rlPc' = [rlPc EXCEPT ![p] = "called"]
    /\ rlCall' = [rlCall EXCEPT ![p] =
                    [ via |-> via,
                      key |-> generateKey(userId, clientId, endpoint),
                      now |-> clock,
                      windowStart |-> clock - windowMs,
                      maxRequests |-> maxRequests,
                      windowMs |-> windowMs ]]
    /\ UNCHANGED <<clock, redisUp, rlZset, rlExpire, rlLast, rlServed, rlFresh, rlOps, tsVars, otherVars>>

checkRateLimit(p, userId, clientId, endpoint) ==
    BeginCheck(p, "direct", userId, clientId, endpoint, MaxLimit, ConfigWindowMs)

checkGlobalRateLimit(p, endpoint) ==
    BeginCheck(p, "global", "global", "system", globalEndpoint(endpoint),
               ConfigMaxRequests * GlobalFactor, ConfigWindowMs)

\* redis.eval succeeds: the script runs atomically and the result is built.
EvalScript(p) ==
    /\ rlPc[p] = "called"
    /\ redisUp
    /\ LET c == rlCall[p]
           r == LuaScript(rlZset[c.key], rlExpire[c.key], c.windowStart, c.now,
                          c.maxRequests, c.windowMs, clock)
           res == RateLimitResultOf(r.reply, c.now, c.maxRequests, c.windowMs)
       IN  /\ rlZset' = [rlZset EXCEPT ![c.key] = r.zset]
           /\ rlExpire' = [rlExpire EXCEPT ![c.key] = r.expire]
           /\ rlLast' = Op("check", c, FALSE, FALSE, Scores(rlZset[c.key]), r.pruned,
                           c.key \in rlFresh, res)
           /\ rlServed' = rlServed (+) SetToBag({
                  [ key |-> c.key, now |-> c.now, maxRequests |-> c.maxRequests,
                    windowMs |-> c.windowMs, allowed |-> res.allowed ] })
           /\ rlFresh' = rlFresh \ {c.key}
    /\ rlPc' = [rlPc EXCEPT ![p] = "idle"]
    /\ rlCall' = [rlCall EXCEPT ![p] = NoCall]
    /\ rlOps' = rlOps + 1
    /\ UNCHANGED <<clock, redisUp, tsVars, otherVars>>

\* redis.eval rejects: the catch block logs and fails open.
EvalFail(p) ==
    /\ rlPc[p] = "called"
    /\ ~redisUp
    /\ LET c == rlCall[p]
       IN  rlLast' = Op("check", c, TRUE, FALSE, Scores(rlZset[c.key]), {},
                        c.key \in rlFresh,
                        FailOpenResult(c.now, c.maxRequests, c.windowMs))
    /\ rlPc' = [rlPc EXCEPT ![p] = "idle"]
    /\ rlCall' = [rlCall EXCEPT ![p] = NoCall]
    /\ rlOps' = rlOps + 1
    /\ UNCHANGED <<clock, redisUp, rlZset, rlExpire, rlServed, rlFresh, tsVars, otherVars>>

\* Mutant: a del that removes nothing.
DelNothing(z, key) == z

\* What redis.del(key) leaves of the sorted sets.
Del(z, key) == [z EXCEPT ![key] = {}]

\* The served checks of a key leave the history when the key is reset.
Forget(served, key) ==
    LET keep == { e \in BagToSet(served) : e.key # key }
    IN  [ e \in keep |-> served[e] ]

\* resetRateLimit: redis.del(key); a failed del is rethrown as an Error.
resetRateLimit(userId, clientId, endpoint) ==
    LET key == generateKey(userId, clientId, endpoint)
        c == [NoCall EXCEPT !.via = "reset", !.key = key, !.now = clock]
    IN  /\ rlOps + InFlight < MaxCalls
        /\ rlZset' = IF redisUp THEN Del(rlZset, key) ELSE rlZset
        /\ rlExpire' = IF redisUp THEN [rlExpire EXCEPT ![key] = NoExpire] ELSE rlExpire
        /\ rlLast' = Op("reset", c, ~redisUp, ~redisUp, Scores(rlZset[key]), {},
                        key \in rlFresh, NoResult)
        /\ rlServed' = IF redisUp THEN Forget(rlServed, key) ELSE rlServed
        /\ rlFresh' = IF redisUp THEN rlFresh \cup {key} ELSE rlFresh
        /\ rlOps' = rlOps + 1
        /\ UNCHANGED <<clock, redisUp, rlPc, rlCall, tsVars, otherVars>>

(***************************************************************************)
(* getRateLimitStatus: two Redis commands, each awaited, on the default    *)
(* configuration.                                                          *)
(***************************************************************************)
\* The windowMs callers pass in customConfig: the default and a longer one.
CustomWindows == { ConfigWindowMs, 2 * ConfigWindowMs }

\* checkRateLimit with a customConfig of maxRequests and windowMs.
checkRateLimitWith(p, userId, clientId, endpoint, maxRequests, windowMs) ==
    BeginCheck(p, "direct", userId, clientId, endpoint, maxRequests, windowMs)

\* The status getRateLimitStatus returns when both commands were served.
StatusResult(current, now) ==
    LET remaining == Max0(ConfigMaxRequests - current)
    IN  [ allowed |-> remaining > 0,
          limit |-> ConfigMaxRequests,
          current |-> current,
          remaining |-> remaining,
          resetTime |-> now + ConfigWindowMs,
          retryAfter |-> Absent ]

\* getRateLimitStatus up to its first await: the key, Date.now() and the
\* start of the default window.
getRateLimitStatus(p, userId, clientId, endpoint) ==
    /\ rlPc[p] = "idle"
    /\ rlOps + InFlight < MaxCalls
    /\ rlPc' = [rlPc EXCEPT ![p] = "status_prune"]
    /\ rlCall' = [rlCall EXCEPT ![p] =
                    [ via |-> "status",
                      key |-> generateKey(userId, clientId, endpoint),
                      now |-> clock,
                      windowStart |-> clock - ConfigWindowMs,
                      maxRequests |-> ConfigMaxRequests,
                      windowMs |-> ConfigWindowMs ]]
    /\ UNCHANGED <<clock, redisUp, rlZset, rlExpire, rlLast, rlServed, rlFresh, rlOps, tsVars, otherVars>>

\* The catch block of getRateLimitStatus: the default status.
StatusFails(p) ==
    LET c == rlCall[p]
    IN  /\ rlLast' = Op("status", c, TRUE, FALSE, Scores(rlZset[c.key]), {},
                        c.key \in rlFresh,
                        FailOpenResult(c.now, ConfigMaxRequests, ConfigWindowMs))
        /\ rlPc' = [rlPc EXCEPT ![p] = "idle"]
        /\ rlCall' = [rlCall EXCEPT ![p] = NoCall]
        /\ rlOps' = rlOps + 1

\* redis.zRemRangeByScore(key, '-inf', windowStart); a key left with no
\* member no longer exists, nor does its TTL.
StatusPrune(p) ==
    LET c == rlCall[p]
        kept == ZRemRangeByScore(rlZset[c.key], c.windowStart)
    IN  /\ rlPc[p] = "status_prune"
        /\ IF redisUp
           THEN /\ rlZset' = [rlZset EXCEPT ![c.key] = kept]
                /\ rlExpire' = [rlExpire EXCEPT ![c.key] =
                                   IF kept = {} THEN NoExpire ELSE @]
                /\ rlPc' = [rlPc EXCEPT ![p] = "status_count"]
                /\ UNCHANGED <<rlCall, rlLast, rlOps>>
           ELSE /\ StatusFails(p)
                /\ UNCHANGED <<rlZset, rlExpire>>
        /\ UNCHANGED <<clock, redisUp, rlServed, rlFresh, tsVars, otherVars>>

\* redis.zCard(key) and the return.
StatusCount(p) ==
    LET c == rlCall[p]
    IN  /\ rlPc[p] = "status_count"
        /\ IF redisUp
           THEN /\ rlLast' = Op("status", c, FALSE, FALSE, Scores(rlZset[c.key]), {},
                               c.key \in rlFresh,
                               StatusResult(ZCard(rlZset[c.key]), c.now))
                /\ rlPc' = [rlPc EXCEPT ![p] = "idle"]
                /\ rlCall' = [rlCall EXCEPT ![p] = NoCall]
                /\ rlOps' = rlOps + 1
           ELSE StatusFails(p)
        /\ UNCHANGED <<clock, redisUp, rlZset, rlExpire, rlServed, rlFresh, tsVars, otherVars>>

(***************************************************************************)
(* TokenStorage: encrypted tokens under two Redis keys per (user, client). *)
(***************************************************************************)
EncryptionKey == "k1"

\* The initialization vectors crypto.randomBytes(16) may draw.
IVs == { "iv1", "iv2" }

GraceSeconds == 24 * 60 * 60

generateAccessTokenKey(userId, clientId) ==
    "auth:access_token:" \o clientId \o ":" \o userId

generateRefreshTokenKey(userId, clientId) ==
    "auth:refresh_token:" \o clientId \o ":" \o userId

\* The (userId, clientId) pairs callers present.
PlainPairs == { <<"u1", "c1">>, <<"u2", "c1">> }

\* Two pairs whose identifiers contain ':'.
ColonPairs == { <<"b:c", "a">>, <<"c", "a:b">> }

TSPairs == PlainPairs \cup ColonPairs

OnePair == { <<"u1", "c1">> }

\* The pair a token store key belongs to.
PairOf(key) ==
    CHOOSE pr \in TSPairs :
        key \in { generateAccessTokenKey(pr[1], pr[2]), generateRefreshTokenKey(pr[1], pr[2]) }

TSKeys ==
    { generateAccessTokenKey(pr[1], pr[2]) : pr \in TSPairs }
        \cup { generateRefreshTokenKey(pr[1], pr[2]) : pr \in TSPairs }

\* The AccessToken arguments of storeToken: with and without a refresh token.
AccessTokens ==
    { [ access_token |-> "at1", refresh_token |-> Some("rt1"), token_type |-> "Bearer" ],
      [ access_token |-> "at2", refresh_token |-> Absent, token_type |-> "Bearer" ] }

\* The authContext.expiresAt values of storeToken, in seconds.
ExpiresAtChoices == { 10, 100 }

ContextScopes == { "read:financial-data" }

\* JavaScript's truthiness of an optional string.
Truthy(x) == x # Absent /\ x[1] # ""

\* The StoredToken storeToken assembles.
StoredTokenOf(userId, clientId, accessToken, expiresAt, scopes) ==
    [ accessToken |-> accessToken.access_token,
      refreshToken |-> accessToken.refresh_token,
      tokenType |-> accessToken.token_type,
      expiresAt |-> expiresAt,
      scopes |-> scopes,
      clientId |-> clientId,
      userId |-> userId ]

\* JSON.stringify: the fields in order, an undefined field left out.
Stringify(t) ==
    << <<"accessToken", t.accessToken>> >>
        \o (IF t.refreshToken = Absent THEN << >>
            ELSE << <<"refreshToken", t.refreshToken[1]>> >>)
        \o << <<"tokenType", t.tokenType>>,
              <<"expiresAt", t.expiresAt>>,
              <<"scopes", t.scopes>>,
              <<"clientId", t.clientId>>,
              <<"userId", t.userId>> >>

Field(text, name) ==
    LET at == { i \in 1..Len(text) : text[i][1] = name }
    IN  IF at = {} THEN Absent ELSE Some(text[CHOOSE i \in at : TRUE][2])

Required == { "accessToken", "tokenType", "expiresAt", "scopes", "clientId", "userId" }

\* A text JSON.parse accepts as an object: every member has a name.
IsJson(text) == \A i \in 1..Len(text) : text[i][1] # ""

\* Mutant: a parse that drops the optional refreshToken.
JsonParseNoRefresh(text) ==
    IF ~IsJson(text) \/ \E n \in Required : Field(text, n) = Absent
    THEN Absent
    ELSE Some([ accessToken |-> Field(text, "accessToken")[1],
                refreshToken |-> Absent,
                tokenType |-> Field(text, "tokenType")[1],
                expiresAt |-> Field(text, "expiresAt")[1],
                scopes |-> Field(text, "scopes")[1],
                clientId |-> Field(text, "clientId")[1],
                userId |-> Field(text, "userId")[1] ])

\* JSON.parse and StoredTokenSchema.parse: the record, or a throw (Absent)
\* when the text is not JSON or a required field is missing.
JsonParse(text) ==
    IF ~IsJson(text) \/ \E n \in Required : Field(text, n) = Absent
    THEN Absent
    ELSE Some([ accessToken |-> Field(text, "accessToken")[1],
                refreshToken |-> Field(text, "refreshToken"),
                tokenType |-> Field(text, "tokenType")[1],
                expiresAt |-> Field(text, "expiresAt")[1],
                scopes |-> Field(text, "scopes")[1],
                clientId |-> Field(text, "clientId")[1],
                userId |-> Field(text, "userId")[1] ])

\* encrypt: iv ':' ciphertext; createCipher derives the cipher from the key alone.
encrypt(text, iv) ==
    [ iv |-> iv, data |-> [ cipher |-> "aes-256-cbc", key |-> EncryptionKey, text |-> text ] ]

\* Mutant: a decipher that accepts any value.
DecryptUnchecked(encryptedData) == Some(encryptedData.data.text)

\* decrypt: the part after ':' deciphered with the key; a throw (a value
\* that does not split into two parts, a failed decipher) is Absent.
decrypt(encryptedData) ==
    IF encryptedData.iv = "" \/ encryptedData.data.key # EncryptionKey
    THEN Absent
    ELSE Some(encryptedData.data.text)

Max(a, b) == IF a >= b THEN a ELSE b

\* Math.floor(Date.now() / 1000)
NowSeconds(ms) == ms \div MsPerSecond

\* Mutant: the remaining lifetime with no floor.
TtlNoFloor(expiresAt, ms) == expiresAt - NowSeconds(ms)

\* ttlSeconds of storeToken.
TtlSeconds(expiresAt, ms) == Max(FloorSeconds, expiresAt - NowSeconds(ms))

\* Mutant: a token counted as expired only after its expiresAt.
IsExpiredAfter(expiresAt, ms) == expiresAt < NowSeconds(ms)

\* getToken's expiry test.
IsExpired(expiresAt, ms) == expiresAt <= NowSeconds(ms)

\* SETEX key seconds value at server time serverNow.
SetEx(store, key, seconds, value, serverNow) ==
    [store EXCEPT ![key] =
        Some([ value |-> value, expireAt |-> serverNow + seconds * MsPerSecond ])]

\* GET key.
Get(store, key) == IF store[key] = Absent THEN Absent ELSE Some(store[key][1].value)

\* Mutant: a DEL that removes every key.
TsDelAll(store, key) == [k \in DOMAIN store |-> Absent]

\* Mutant: a DEL that removes nothing.
TsDelNothing(store, key) == store

\* DEL key.
TsDel(store, key) == [store EXCEPT ![key] = Absent]

\* Redis drops the keys whose TTL has run out by server time t.
TsExpire(store, t) ==
    [k \in DOMAIN store |->
        IF store[k] # Absent /\ store[k][1].expireAt <= t THEN Absent ELSE store[k]]

NoTsCall ==
    [ op |-> "none", userId |-> "", clientId |-> "", rec |-> Absent, blob |-> Absent,
      ttl |-> 0, hasRefresh |-> FALSE, accessUntil |-> 0,
      ghost |-> Absent, readAt |-> 0, readOk |-> FALSE ]

\* The record of a completed token store operation; stored counts the
\* storeToken calls that have returned without throwing.
TsOp(c, result, raised, ghost, readAt, readOk, stored) ==
    [ op |-> c.op, userId |-> c.userId, clientId |-> c.clientId,
      result |-> result, raised |-> raised,
      ghost |-> ghost, readAt |-> readAt, readOk |-> readOk,
      stored |-> stored ]

NoTsOp == TsOp(NoTsCall, Absent, FALSE, Absent, 0, FALSE, 0)

\* The call of caller p returns (or throws).
TsReturn(p, result, raised, ghost, readAt, readOk) ==
    /\ tsLast' = TsOp(tsCall[p], result, raised, ghost, readAt, readOk,
                       IF tsCall[p].op = "store" /\ ~raised
                       THEN tsLast.stored + 1 ELSE tsLast.stored)
    /\ tsPc' = [tsPc EXCEPT ![p] = "idle"]
    /\ tsCall' = [tsCall EXCEPT ![p] = NoTsCall]

\* storeToken up to its first await: the record is assembled, validated,
\* serialized and encrypted, and the TTL computed.
storeToken(p, userId, clientId, accessToken, expiresAt, iv) ==
    LET storedToken == StoredTokenOf(userId, clientId, accessToken, expiresAt, ContextScopes)
        encryptedData == encrypt(Stringify(storedToken), iv)
        ttlSeconds == TtlSeconds(expiresAt, clock)
    IN  /\ tsPc[p] = "idle"
        /\ tsOps < MaxTsOps
        /\ tsPc' = [tsPc EXCEPT ![p] = "st_access"]
        /\ tsCall' = [tsCall EXCEPT ![p] =
               [ NoTsCall EXCEPT !.op = "store", !.userId = userId, !.clientId = clientId,
                                 !.rec = Some(storedToken), !.blob = Some(encryptedData),
                                 !.ttl = ttlSeconds,
                                 !.hasRefresh = Truthy(accessToken.refresh_token) ]]
        /\ tsOps' = tsOps + 1
        /\ UNCHANGED <<clock, redisUp, rlVars, otherVars, tsStore, tsLast, tsGhost, tsOwner>>

\* redis.setEx(accessTokenKey, ttlSeconds, encryptedData), and the return when
\* there is no refresh token; a failed write is rethrown.
StoreAccess(p) ==
    LET c == tsCall[p]
        pr == <<c.userId, c.clientId>>
        until == clock + c.ttl * MsPerSecond
    IN  /\ tsPc[p] = "st_access"
        /\ IF ~redisUp
           THEN /\ TsReturn(p, Absent, TRUE, Absent, 0, FALSE)
                /\ UNCHANGED <<tsStore, tsGhost, tsOwner>>
           ELSE /\ tsStore' = SetEx(tsStore, generateAccessTokenKey(c.userId, c.clientId),
                                    c.ttl, c.blob[1], clock)
                /\ tsOwner' = [tsOwner EXCEPT ![pr] = p]
                /\ IF c.hasRefresh
                   THEN /\ tsPc' = [tsPc EXCEPT ![p] = "st_refresh"]
                        /\ tsCall' = [tsCall EXCEPT ![p].accessUntil = until]
                        /\ tsGhost' = [tsGhost EXCEPT ![pr] = Absent]
                        /\ UNCHANGED tsLast
                   ELSE /\ TsReturn(p, Absent, FALSE, Absent, 0, FALSE)
                        /\ tsGhost' = [tsGhost EXCEPT ![pr] =
                               Some([ rec |-> c.rec[1], accessUntil |-> until,
                                      refreshUntil |-> Absent ])]
        /\ UNCHANGED <<clock, redisUp, rlVars, otherVars, tsOps>>

\* redis.setEx(refreshTokenKey, ttlSeconds + 24h, encryptedData) and the return.
StoreRefresh(p) ==
    LET c == tsCall[p]
        pr == <<c.userId, c.clientId>>
        refreshTTL == c.ttl + GraceSeconds
        alone == tsOwner[pr] = p
    IN  /\ tsPc[p] = "st_refresh"
        /\ IF ~redisUp
           THEN /\ TsReturn(p, Absent, TRUE, Absent, 0, FALSE)
                /\ UNCHANGED <<tsStore, tsGhost, tsOwner>>
           ELSE /\ tsStore' = SetEx(tsStore, generateRefreshTokenKey(c.userId, c.clientId),
                                    refreshTTL, c.blob[1], clock)
                /\ tsOwner' = [tsOwner EXCEPT ![pr] = IF alone THEN p ELSE 0]
                /\ tsGhost' = [tsGhost EXCEPT ![pr] =
                       IF alone
                       THEN Some([ rec |-> c.rec[1], accessUntil |-> c.accessUntil,
                                   refreshUntil |-> Some(clock + refreshTTL * MsPerSecond) ])
                       ELSE Absent]
                /\ TsReturn(p, Absent, FALSE, Absent, 0, FALSE)
        /\ UNCHANGED <<clock, redisUp, rlVars, otherVars, tsOps>>

\* A call that starts by reading or deleting: getToken, getRefreshToken, deleteToken.
TsBegin(p, op, pc, userId, clientId) ==
    /\ tsPc[p] = "idle"
    /\ tsOps < MaxTsOps
    /\ tsPc' = [tsPc EXCEPT ![p] = pc]
    /\ tsCall' = [tsCall EXCEPT ![p] =
           [ NoTsCall EXCEPT !.op = op, !.userId = userId, !.clientId = clientId ]]
    /\ tsOps' = tsOps + 1
    /\ UNCHANGED <<clock, redisUp, rlVars, otherVars, tsStore, tsLast, tsGhost, tsOwner>>

getToken(p, userId, clientId) == TsBegin(p, "getToken", "gt_read", userId, clientId)

\* getRefreshToken awaits getToken and maps its result.
getRefreshToken(p, userId, clientId) ==
    TsBegin(p, "getRefreshToken", "gt_read", userId, clientId)

deleteToken(p, userId, clientId) == TsBegin(p, "deleteToken", "del_access", userId, clientId)

\* What the caller of op receives for the token getToken found.
ResultFor(op, storedToken) ==
    IF op = "getRefreshToken"
    THEN (IF Truthy(storedToken.refreshToken) THEN storedToken.refreshToken ELSE Absent)
    ELSE Some(storedToken)

\* redis.get(accessTokenKey) and what follows it without an await: decrypt,
\* parse, validate, the expiry test, and the return of a live token.
GetRead(p) ==
    LET c == tsCall[p]
        pr == <<c.userId, c.clientId>>
        encryptedData == Get(tsStore, generateAccessTokenKey(c.userId, c.clientId))
        decryptedData == IF encryptedData = Absent THEN Absent ELSE decrypt(encryptedData[1])
        storedToken == IF decryptedData = Absent THEN Absent ELSE JsonParse(decryptedData[1])
    IN  /\ tsPc[p] = "gt_read"
        /\ IF ~redisUp
           THEN TsReturn(p, Absent, FALSE, tsGhost[pr], clock, FALSE)
           ELSE IF storedToken = Absent
           THEN TsReturn(p, Absent, FALSE, tsGhost[pr], clock, TRUE)
           ELSE IF IsExpired(storedToken[1].expiresAt, clock)
           THEN /\ tsPc' = [tsPc EXCEPT ![p] = "del_access"]
                /\ tsCall' = [tsCall EXCEPT ![p].ghost = tsGhost[pr],
                                            ![p].readAt = clock, ![p].readOk = TRUE]
                /\ UNCHANGED tsLast
           ELSE TsReturn(p, ResultFor(c.op, storedToken[1]), FALSE, tsGhost[pr], clock, TRUE)
        /\ UNCHANGED <<clock, redisUp, rlVars, otherVars, tsStore, tsGhost, tsOwner, tsOps>>

\* deleteToken's first del; a failed del makes deleteToken throw, which
\* getToken's catch turns into null.
DelAccess(p) ==
    LET c == tsCall[p]
        pr == <<c.userId, c.clientId>>
    IN  /\ tsPc[p] = "del_access"
        /\ IF ~redisUp
           THEN /\ TsReturn(p, Absent, c.op = "deleteToken", c.ghost, c.readAt, c.readOk)
                /\ UNCHANGED <<tsStore, tsGhost, tsOwner>>
           ELSE /\ tsStore' = TsDel(tsStore, generateAccessTokenKey(c.userId, c.clientId))
                /\ tsOwner' = [tsOwner EXCEPT ![pr] = p]
                /\ tsGhost' = [tsGhost EXCEPT ![pr] = Absent]
                /\ tsPc' = [tsPc EXCEPT ![p] = "del_refresh"]
                /\ UNCHANGED <<tsCall, tsLast>>
        /\ UNCHANGED <<clock, redisUp, rlVars, otherVars, tsOps>>

\* deleteToken's second del and the return.
DelRefresh(p) ==
    LET c == tsCall[p]
        pr == <<c.userId, c.clientId>>
    IN  /\ tsPc[p] = "del_refresh"
        /\ IF ~redisUp
           THEN /\ TsReturn(p, Absent, c.op = "deleteToken", c.ghost, c.readAt, c.readOk)
                /\ UNCHANGED <<tsStore, tsGhost, tsOwner>>
           ELSE /\ tsStore' = TsDel(tsStore, generateRefreshTokenKey(c.userId, c.clientId))
                /\ tsOwner' = [tsOwner EXCEPT ![pr] = IF tsOwner[pr] = p THEN p ELSE 0]
                /\ tsGhost' = [tsGhost EXCEPT ![pr] = Absent]
                /\ TsReturn(p, Absent, FALSE, c.ghost, c.readAt, c.readOk)
        /\ UNCHANGED <<clock, redisUp, rlVars, otherVars, tsOps>>

(***************************************************************************)
(* AuthMiddleware: bearer token authentication and scope authorization.    *)
(***************************************************************************)
StartsWith(s, prefix) ==
    Len(s) >= Len(prefix) /\ SubSeq(s, 1, Len(prefix)) = prefix

\* The string s from its i-th character on.
From(s, i) == SubSeq(s, i, Len(s))

\* The characters the regular expression class \s matches, of those in use.
IsSpace(ch) == ch \in { " ", "\t" }

\* The number of whitespace characters s begins with.
RECURSIVE LeadingSpaces(_)
LeadingSpaces(s) ==
    IF Len(s) > 0 /\ IsSpace(SubSeq(s, 1, 1)) THEN 1 + LeadingSpaces(From(s, 2)) ELSE 0

\* String.split(' ').filter(Boolean): the non-empty pieces between spaces.
RECURSIVE SplitWords(_, _)
SplitWords(s, word) ==
    IF Len(s) = 0
    THEN (IF word = "" THEN << >> ELSE <<word>>)
    ELSE IF SubSeq(s, 1, 1) = " "
         THEN (IF word = "" THEN << >> ELSE <<word>>) \o SplitWords(From(s, 2), "")
         ELSE SplitWords(From(s, 2), word \o SubSeq(s, 1, 1))

SeqToSet(q) == { q[i] : i \in DOMAIN q }

\* config.oauth.issuerUrl
Issuer == "https://issuer"

\* The value of header name, undefined when the request lacks it.
HeaderOf(headers, name) ==
    IF \E h \in headers : h[1] = name
    THEN Some((CHOOSE h \in headers : h[1] = name)[2])
    ELSE Absent

\* extractBearerToken: headers.authorization || headers.Authorization matched
\* against /^Bearer\s+(.+)$/; the captured group, or null.
extractBearerToken(headers) ==
    LET lower == HeaderOf(headers, "authorization")
        authHeader == IF Truthy(lower) THEN lower ELSE HeaderOf(headers, "Authorization")
    IN  IF ~Truthy(authHeader) \/ ~StartsWith(authHeader[1], "Bearer")
        THEN Absent
        ELSE LET rest == From(authHeader[1], 7)
                 spaces == LeadingSpaces(rest)
             IN  IF spaces = 0 \/ Len(rest) < 2 THEN Absent
                 ELSE IF spaces = Len(rest) THEN Some(From(rest, spaces))
                 ELSE Some(From(rest, spaces + 1))

\* The claims of a JWT payload; an optional claim is Absent or Some(value),
\* aud is a string or a list of strings.
Claims(sub, iss, aud, exp, nbf, scope) ==
    [ sub |-> sub, iss |-> iss, aud |-> aud, exp |-> exp, iat |-> Some(0),
      nbf |-> nbf, scope |-> scope, email |-> Absent, name |-> Absent ]

StringAud(a) == Some([ isString |-> TRUE, value |-> a ])

GoodScope == Some("read:financial-data  read:stock-prices")

\* The bearer tokens presented: for each its JWT as jwt.verify sees it.
Jwts ==
    [ tGood |-> [ sigOk |-> TRUE, isObject |-> TRUE,
                  claims |-> Claims(Some("u1"), Some(Issuer), StringAud("c1"),
                                    Some(100), Absent, GoodScope) ],
      tBadSig |-> [ sigOk |-> FALSE, isObject |-> TRUE,
                    claims |-> Claims(Some("u1"), Some(Issuer), StringAud("c1"),
                                      Some(100), Absent, GoodScope) ],
      tShort |-> [ sigOk |-> TRUE, isObject |-> TRUE,
                   claims |-> Claims(Some("u1"), Some(Issuer), StringAud("c1"),
                                     Some(10), Absent, Absent) ],
      tLater |-> [ sigOk |-> TRUE, isObject |-> TRUE,
                   claims |-> Claims(Some("u1"), Some(Issuer), StringAud("c1"),
                                     Some(100), Some(10), GoodScope) ],
      tText |-> [ sigOk |-> TRUE, isObject |-> FALSE,
                  claims |-> Claims(Absent, Absent, Absent, Absent, Absent, Absent) ],
      tNoSub |-> [ sigOk |-> TRUE, isObject |-> TRUE,
                   claims |-> Claims(Absent, Some(Issuer), StringAud("c1"),
                                     Some(100), Absent, GoodScope) ],
      tAudList |-> [ sigOk |-> TRUE, isObject |-> TRUE,
                     claims |-> Claims(Some("u1"), Some(Issuer),
                                       Some([ isString |-> FALSE, value |-> <<"c1">> ]),
                                       Some(100), Absent, GoodScope) ],
      tForeign |-> [ sigOk |-> TRUE, isObject |-> TRUE,
                     claims |-> Claims(Some("u1"), Some("https://other"), StringAud("c1"),
                                       Some(100), Absent, GoodScope) ] ]

TokenNames == DOMAIN Jwts

Thrown(class, message) == [ ok |-> FALSE, class |-> class, message |-> message ]

Returned(value) == [ ok |-> TRUE, value |-> value ]

\* jsonwebtoken's error classes: TokenExpiredError and NotBeforeError extend
\* JsonWebTokenError, and every class extends Error.
InstanceOf(class, ancestor) ==
    \/ class = ancestor
    \/ ancestor = "Error"
    \/ ancestor = "JsonWebTokenError" /\ class \in { "TokenExpiredError", "NotBeforeError" }

\* jwt.verify(token, secret, {issuer, algorithms}) at the time ms: the
\* signature, then nbf, exp and iss; a payload that is not an object has no
\* claims.
JwtVerify(token, ms) ==
    IF token \notin TokenNames THEN Thrown("JsonWebTokenError", "jwt malformed")
    ELSE LET jwt == Jwts[token]
             c == jwt.claims
             now == ms \div MsPerSecond
         IN  IF ~jwt.sigOk THEN Thrown("JsonWebTokenError", "invalid signature")
             ELSE IF c.nbf # Absent /\ c.nbf[1] > now
             THEN Thrown("NotBeforeError", "jwt not active")
             ELSE IF c.exp # Absent /\ now >= c.exp[1]
             THEN Thrown("TokenExpiredError", "jwt expired")
             ELSE IF c.iss # Some(Issuer)
             THEN Thrown("JsonWebTokenError", "jwt issuer invalid. expected: " \o Issuer)
             ELSE IF ~jwt.isObject THEN Returned(Absent)
             ELSE Returned(Some(c))

\* JWTClaimsSchema.parse: sub, iss, aud, exp and iat are required.
JWTClaimsSchemaOk(c) ==
    c.sub # Absent /\ c.iss # Absent /\ c.aud # Absent /\ c.exp # Absent /\ c.iat # Absent

\* validateJWT: the claims, or the Error its catch block throws.
validateJWT(token, ms) ==
    LET v == JwtVerify(token, ms)
        thrown == IF ~v.ok THEN v
                  ELSE IF v.value = Absent THEN Thrown("Error", "Invalid token payload")
                  ELSE IF ~JWTClaimsSchemaOk(v.value[1])
                  THEN Thrown("ZodError", "Required")
                  ELSE Returned(v.value[1])
    IN  IF thrown.ok THEN thrown
        ELSE IF InstanceOf(thrown.class, "JsonWebTokenError")
        THEN Thrown("Error", "Invalid token: " \o thrown.message)
        ELSE IF InstanceOf(thrown.class, "TokenExpiredError")
        THEN Thrown("Error", "Token has expired")
        ELSE IF InstanceOf(thrown.class, "NotBeforeError")
        THEN Thrown("Error", "Token not yet valid")
        ELSE IF InstanceOf(thrown.class, "ZodError")
        THEN Thrown("Error", "Invalid token claims: " \o thrown.message)
        ELSE thrown

\* buildAuthContext: the context of the claims, or the ZodError of
\* AuthContextSchema.parse when aud is not a string.
buildAuthContext(claims) ==
    IF ~claims.aud[1].isString
    THEN Thrown("ZodError", "Expected string, received array")
    ELSE Returned([ userId |-> claims.sub[1],
                    scopes |-> IF Truthy(claims.scope)
                               THEN SplitWords(claims.scope[1], "") ELSE << >>,
                    tokenType |-> "Bearer",
                    issuedAt |-> claims.iat[1],
                    expiresAt |-> claims.exp[1],
                    clientId |-> claims.aud[1].value,
                    email |-> claims.email,
                    name |-> claims.name ])

AuthenticationResult(success, context, error, raised) ==
    [ success |-> success, context |-> context, error |-> error, raised |-> raised ]

\* Mutant: an authenticate without its catch block.
AuthenticateNoCatch(request, ms) ==
    LET token == extractBearerToken(request)
        claims == validateJWT(token[1], ms)
        context == buildAuthContext(claims.value)
    IN  IF ~Truthy(token)
        THEN AuthenticationResult(FALSE, Absent,
                                  Some("Missing or invalid Authorization header"), FALSE)
        ELSE IF ~claims.ok THEN AuthenticationResult(FALSE, Absent, Absent, TRUE)
        ELSE IF ~context.ok THEN AuthenticationResult(FALSE, Absent, Absent, TRUE)
        ELSE AuthenticationResult(TRUE, Some(context.value), Absent, FALSE)

\* authenticate: the AuthenticationResult for the request's headers.
authenticate(request, ms) ==
    LET token == extractBearerToken(request)
        claims == validateJWT(token[1], ms)
        context == buildAuthContext(claims.value)
    IN  IF ~Truthy(token)
        THEN AuthenticationResult(FALSE, Absent,
                                  Some("Missing or invalid Authorization header"), FALSE)
        ELSE IF ~claims.ok
        THEN AuthenticationResult(FALSE, Absent, Some(claims.message), FALSE)
        ELSE IF ~context.ok
        THEN AuthenticationResult(FALSE, Absent, Some(context.message), FALSE)
        ELSE AuthenticationResult(TRUE, Some(context.value), Absent, FALSE)

\* Mutant: an empty requirement is refused.
AuthorizeDenyEmpty(scopes, requiredScopes) ==
    /\ Len(requiredScopes) > 0
    /\ \/ "admin:financial-data" \in SeqToSet(scopes)
       \/ \A i \in DOMAIN requiredScopes : requiredScopes[i] \in SeqToSet(scopes)

\* Mutant: one required scope held is enough.
AuthorizeAny(scopes, requiredScopes) ==
    \/ Len(requiredScopes) = 0
    \/ \E i \in DOMAIN requiredScopes : requiredScopes[i] \in SeqToSet(scopes)

\* authorize(context, requiredScopes), on the context's scopes.
authorize(scopes, requiredScopes) ==
    IF Len(requiredScopes) = 0 THEN TRUE
    ELSE IF "admin:financial-data" \in SeqToSet(scopes) THEN TRUE
    ELSE IF /\ "read:financial-data" \in SeqToSet(scopes)
            /\ \A i \in DOMAIN requiredScopes : StartsWith(requiredScopes[i], "read:")
    THEN TRUE
    ELSE \A i \in DOMAIN requiredScopes : requiredScopes[i] \in SeqToSet(scopes)

\* The scopes that occur in contexts and requirements.
ScopeNames ==
    { "admin:financial-data", "read:financial-data", "read:stock-prices",
      "write:financial-data" }

\* The scope lists of at most MaxScopes members.
ScopeLists == UNION { [1..n -> ScopeNames] : n \in 0..MaxScopes }

HeaderNames == { "authorization", "Authorization", "AUTHORIZATION" }

HeaderValues ==
    { "Bearer " \o t : t \in TokenNames \cup { "tUnknown" } }
        \cup { "", "InvalidToken", "bearer tGood", "BearertGood", "Bearer ",
               "Bearer  tGood", "Bearer\ttGood" }

\* The header maps of the requests presented, as sets of <<name, value>>.
Requests ==
    { {} } \cup { { <<n, v>> } : n \in HeaderNames, v \in HeaderValues }
           \cup { { <<"authorization", "">>, <<"Authorization", v>> } : v \in HeaderValues }

\* The record of an AuthMiddleware operation; n counts the operations so far.
MwOp(op, scopes, required, request, at, result, n) ==
    [ op |-> op, scopes |-> scopes, required |-> required, request |-> request,
      at |-> at, result |-> result, n |-> n ]

NoMwOp == MwOp("none", << >>, << >>, {}, 0, FALSE, 0)

\* No AuthMiddleware call is in flight and another may be made.
MwIdle == mwLast.n < MaxMwOps /\ mwCall = Absent

\* A caller asks whether a context with these scopes meets a requirement.
Authorize(scopes, requiredScopes) ==
    /\ MwIdle
    /\ mwLast' = MwOp("authorize", scopes, requiredScopes, {}, clock,
                      authorize(scopes, requiredScopes), mwLast.n + 1)
    /\ UNCHANGED <<clock, redisUp, rlVars, tsVars, utilVars, mwCall, oaVars, lgVars>>

\* A request is authenticated.
Authenticate(request) ==
    /\ MwIdle
    /\ mwLast' = MwOp("authenticate", << >>, << >>, request, clock,
                      authenticate(request, clock), mwLast.n + 1)
    /\ UNCHANGED <<clock, redisUp, rlVars, tsVars, utilVars, mwCall, oaVars, lgVars>>

\* Mutant: an expiry test that passes a context at its expiresAt.
isTokenExpiredAfter(context, ms) == context.expiresAt < ms \div MsPerSecond

\* isTokenExpired(context) at the time ms.
isTokenExpired(context, ms) == context.expiresAt <= ms \div MsPerSecond

\* A destructured option: its default when the caller left it undefined.
OptionOr(option, default) == IF option = Absent THEN default ELSE option[1]

\* Array.join(', ')
RECURSIVE JoinComma(_)
JoinComma(q) ==
    IF Len(q) = 0 THEN ""
    ELSE IF Len(q) = 1 THEN q[1]
    ELSE q[1] \o ", " \o JoinComma(Tail(q))

MiddlewareReply(authorized, context, error) ==
    [ authorized |-> authorized, context |-> context, error |-> error ]

\* Mutant: a middleware that does not test the expiry of the context.
MiddlewareAfterAuthNoExpiry(options, authResult, ms) ==
    LET scopes == OptionOr(options.scopes, << >>)
        validateScopes == OptionOr(options.validateScopes, TRUE)
    IN  IF ~authResult.success \/ authResult.context = Absent
        THEN MiddlewareReply(FALSE, Absent,
                 IF Truthy(authResult.error) THEN authResult.error
                 ELSE Some("Authentication required"))
        ELSE IF validateScopes /\ Len(scopes) > 0
                /\ ~authorize(authResult.context[1].scopes, scopes)
        THEN MiddlewareReply(FALSE, Absent,
                 Some("Insufficient permissions. Required scopes: " \o JoinComma(scopes)))
        ELSE MiddlewareReply(TRUE, authResult.context, Absent)

\* The middleware of createMiddleware(options) from the return of its
\* await this.authenticate(request) on, at the time ms.
MiddlewareAfterAuth(options, authResult, ms) ==
    LET scopes == OptionOr(options.scopes, << >>)
        validateScopes == OptionOr(options.validateScopes, TRUE)
    IN  IF ~authResult.success \/ authResult.context = Absent
        THEN MiddlewareReply(FALSE, Absent,
                 IF Truthy(authResult.error) THEN authResult.error
                 ELSE Some("Authentication required"))
        ELSE IF isTokenExpired(authResult.context[1], ms)
        THEN MiddlewareReply(FALSE, Absent, Some("Token has expired"))
        ELSE IF validateScopes /\ Len(scopes) > 0
                /\ ~authorize(authResult.context[1].scopes, scopes)
        THEN MiddlewareReply(FALSE, Absent,
                 Some("Insufficient permissions. Required scopes: " \o JoinComma(scopes)))
        ELSE MiddlewareReply(TRUE, authResult.context, Absent)

\* The scope lists given as options.scopes: none, one scope, and two scopes.
MwScopeLists ==
    { q \in ScopeLists : Len(q) <= 1 }
        \cup { <<"read:stock-prices", "write:financial-data">> }

\* The options createMiddleware is given; an option left out is Absent.
MwOptions ==
    [ required : { Absent },
      scopes : { Absent } \cup { Some(q) : q \in MwScopeLists },
      validateScopes : { Absent, Some(FALSE) } ]
        \cup { [ required |-> Some(FALSE), scopes |-> Some(<<"read:stock-prices">>),
                 validateScopes |-> Absent ] }

\* The requests the middleware is called with: those of Requests that name
\* the header 'authorization'.
MwRequests == { r \in Requests : \A h \in r : h[1] = "authorization" }

\* What a completed middleware call is recorded with: its reply, its
\* options, the AuthenticationResult it awaited and when it asked for it.
MwDone(reply, options, authResult, authAt) ==
    [ reply |-> reply, options |-> options, auth |-> authResult, authAt |-> authAt ]

\* The middleware is called: with required = false it returns at once,
\* otherwise it calls authenticate and awaits the result.
Middleware(options, request) ==
    /\ MwIdle
    /\ IF ~OptionOr(options.required, TRUE)
       THEN /\ mwLast' = MwOp("middleware", << >>, << >>, request, clock,
                              MwDone(MiddlewareReply(TRUE, Absent, Absent),
                                     options, Absent, clock),
                              mwLast.n + 1)
            /\ UNCHANGED mwCall
       ELSE /\ mwCall' = Some([ options |-> options, request |-> request,
                                authResult |-> authenticate(request, clock),
                                authAt |-> clock ])
            /\ mwLast' = [ NoMwOp EXCEPT !.n = mwLast.n ]
    /\ UNCHANGED <<clock, redisUp, rlVars, tsVars, utilVars, oaVars, lgVars>>

\* The awaited authenticate has returned; the middleware runs to its return.
MiddlewareResume ==
    /\ mwCall # Absent
    /\ mwLast' = MwOp("middleware", << >>, << >>, mwCall[1].request, clock,
                      MwDone(MiddlewareAfterAuth(mwCall[1].options,
                                                 mwCall[1].authResult, clock),
                             mwCall[1].options, Some(mwCall[1].authResult),
                             mwCall[1].authAt),
                      mwLast.n + 1)
    /\ mwCall' = Absent
    /\ UNCHANGED <<clock, redisUp, rlVars, tsVars, utilVars, oaVars, lgVars>>

(***************************************************************************)
(* Token lifetime utilities of AuthMiddleware.                             *)
(***************************************************************************)
\* The threshold of shouldRefreshToken when the caller gives none.
DefaultThresholdSeconds == 300

\* getTokenLifetime: Math.max(0, context.expiresAt - now).
getTokenLifetime(context, ms) == Max(0, context.expiresAt - ms \div MsPerSecond)

\* A variant that refreshes only strictly below the threshold.
ShouldRefreshBelow(context, thresholdSeconds, ms) ==
    getTokenLifetime(context, ms) < OptionOr(thresholdSeconds, DefaultThresholdSeconds)

\* shouldRefreshToken: lifetime <= thresholdSeconds, 300 by default.
shouldRefreshToken(context, thresholdSeconds, ms) ==
    getTokenLifetime(context, ms) <= OptionOr(thresholdSeconds, DefaultThresholdSeconds)

\* The expiresAt of the contexts asked about, in seconds.
LifetimeExpiries == {0, 10, 60, 100, 360, 400}

\* Contexts as buildAuthContext makes them, with these expiry times.
LifetimeContexts ==
    { [ buildAuthContext(Jwts.tGood.claims).value EXCEPT !.expiresAt = e ] :
        e \in LifetimeExpiries }

\* The thresholds callers give: none, or a number of seconds.
Thresholds == { Absent, Some(0), Some(50), Some(300) }

\* A caller asks for the remaining lifetime of a context.
GetTokenLifetime(context) ==
    /\ MwIdle
    /\ mwLast' = MwOp("getTokenLifetime", << >>, << >>, {}, clock,
                      [ context |-> context, threshold |-> Absent,
                        value |-> getTokenLifetime(context, clock) ],
                      mwLast.n + 1)
    /\ UNCHANGED <<clock, redisUp, rlVars, tsVars, utilVars, mwCall, oaVars, lgVars>>

\* A caller asks whether a context is due for a refresh.
ShouldRefreshToken(context, thresholdSeconds) ==
    /\ MwIdle
    /\ mwLast' = MwOp("shouldRefreshToken", << >>, << >>, {}, clock,
                      [ context |-> context, threshold |-> thresholdSeconds,
                        value |-> shouldRefreshToken(context, thresholdSeconds, clock) ],
                      mwLast.n + 1)
    /\ UNCHANGED <<clock, redisUp, rlVars, tsVars, utilVars, mwCall, oaVars, lgVars>>

(***************************************************************************)
(* OAuthClient: PKCE parameters and the calls of the provider's endpoints. *)
(***************************************************************************)
\* The OAuthClient calls a run makes.
MaxOaOps == 2

\* Whether text contains part (String.prototype.includes).
Includes(text, part) ==
    \E i \in 1..(Len(text) - Len(part) + 1) :
        SubSeq(text, i, i + Len(part) - 1) = part

\* The values base64URLEncode(crypto.randomBytes(n)) can give.
RandomVerifiers == { "verifier1" }
RandomStates == { "state1", "state2" }

\* generatePKCE with the random bytes drawn.
generatePKCE(codeVerifier, state) ==
    [ code_verifier |-> codeVerifier,
      code_challenge |-> "S256(" \o codeVerifier \o ")",
      code_challenge_method |-> "S256",
      state |-> state ]

\* The body of an HTTP response: the fields the client's schemas read.
Body(access_token, expires_in, refresh_token, error, error_description) ==
    [ access_token |-> access_token, expires_in |-> expires_in,
      refresh_token |-> refresh_token,
      error |-> error, error_description |-> error_description ]

\* What httpClient.post / get can end with: no response at all (axios rejects
\* with no error.response), a 2xx response, or a response of another status
\* (axios rejects with error.response set).
HttpOutcomes ==
    { [ kind |-> "transport", data |-> Body(Absent, Absent, Absent, Absent, Absent) ] }
    \cup { [ kind |-> "success", data |-> d ] :
            d \in { Body(Some("at1"), Some(3600), Some("rt1"), Absent, Absent),
                    Body(Some("at1"), Some(3600), Absent, Absent, Absent),
                    Body(Some("at1"), Some(0), Absent, Absent, Absent),
                    Body(Absent, Some(3600), Absent, Absent, Absent) } }
    \cup { [ kind |-> "rejected", data |-> d ] :
            d \in { Body(Absent, Absent, Absent, Some("invalid_grant"), Some("code expired")),
                    Body(Absent, Absent, Absent, Some("invalid_client"), Absent),
                    Body(Absent, Absent, Absent, Some("custom_error"), Some("custom text")),
                    Body(Absent, Absent, Absent, Absent, Absent) } }

\* AccessTokenSchema.safeParse(data).success
AccessTokenSchemaOk(data) ==
    /\ data.access_token # Absent
    /\ data.expires_in # Absent
    /\ data.expires_in[1] > 0

\* AccessTokenSchema.parse(data) for data the schema accepts.
AccessTokenOf(data) ==
    [ access_token |-> data.access_token[1], token_type |-> "Bearer",
      expires_in |-> data.expires_in[1], refresh_token |-> data.refresh_token ]

\* The values of the error member OAuthErrorSchema accepts.
OAuthErrorCodes ==
    { "invalid_request", "invalid_client", "invalid_grant", "unauthorized_client",
      "unsupported_grant_type", "invalid_scope", "access_denied",
      "unsupported_response_type", "server_error", "temporarily_unavailable" }

\* parseOAuthError
parseOAuthError(errorData) ==
    IF errorData.error # Absent /\ errorData.error[1] \in OAuthErrorCodes
    THEN [ error |-> errorData.error[1],
           error_description |-> errorData.error_description ]
    ELSE [ error |-> "server_error",
           error_description |-> Some("Unknown OAuth error occurred") ]

\* The message of the Error a method throws for a failure that is not an
\* error response.
FailureMessage(op) ==
    CASE op = "exchangeCodeForToken" -> "Failed to exchange authorization code for token"
      [] op = "refreshToken" -> "Failed to refresh access token"
      [] op = "revokeToken" -> "Failed to revoke token"
      [] op = "getUserInfo" -> "Failed to fetch user information"

\* What exchangeCodeForToken and refreshToken do with the outcome of their
\* request: the rest of the try block and the catch block.
TokenCallResult(op, outcome) ==
    IF outcome.kind = "success" /\ AccessTokenSchemaOk(outcome.data)
    THEN Returned(AccessTokenOf(outcome.data))
    ELSE IF outcome.kind = "rejected"
    THEN LET oauthError == parseOAuthError(outcome.data)
         IN  Thrown("Error", "OAuth error: " \o oauthError.error \o " - "
                        \o (IF Truthy(oauthError.error_description)
                            THEN oauthError.error_description[1]
                            ELSE "Unknown error"))
    ELSE Thrown("Error", FailureMessage(op))

\* What revokeToken and getUserInfo do with the outcome of their request.
PlainCallResult(op, outcome) ==
    IF outcome.kind = "success"
    THEN Returned(IF op = "getUserInfo" THEN outcome.data ELSE Absent)
    ELSE Thrown("Error", FailureMessage(op))

CallResult(op, outcome) ==
    IF op \in { "exchangeCodeForToken", "refreshToken" }
    THEN TokenCallResult(op, outcome)
    ELSE PlainCallResult(op, outcome)

\* A call in flight or completed: its method, the state argument of
\* exchangeCodeForToken, the PKCE parameters generated before it, the number
\* of HTTP requests it has sent, and the outcome and result once it is over.
OaOp(op, state, pkce, sent, outcome, result, n) ==
    [ op |-> op, state |-> state, pkce |-> pkce, sent |-> sent,
      outcome |-> outcome, result |-> result, n |-> n ]

NoOaOp == OaOp("none", Absent, Absent, 0, Absent, Absent, 0)

OaIdle == oaCall = Absent /\ oaLast.n < MaxOaOps

\* generatePKCE is called; the flow it starts uses its state.
GeneratePKCE ==
    /\ OaIdle
    /\ \E codeVerifier \in RandomVerifiers, state \in RandomStates :
            oaPkce' = Some(generatePKCE(codeVerifier, state))
    /\ UNCHANGED <<clock, redisUp, rlVars, tsVars, utilVars, mwVars, lgVars, oaCall, oaLast>>

\* A method builds its request and awaits httpClient.post / get.
OaBegin(op, state) ==
    /\ OaIdle
    /\ oaCall' = Some(OaOp(op, state, oaPkce, 1, Absent, Absent, oaLast.n + 1))
    /\ UNCHANGED <<clock, redisUp, rlVars, tsVars, utilVars, mwVars, lgVars, oaPkce, oaLast>>

\* exchangeCodeForToken(code, codeVerifier, state) up to its await.
ExchangeCodeForToken(state) == OaBegin("exchangeCodeForToken", Some(state))

RefreshToken == OaBegin("refreshToken", Absent)

RevokeToken == OaBegin("revokeToken", Absent)

GetUserInfo == OaBegin("getUserInfo", Absent)

\* A variant in which a call whose request met a transport failure sends the
\* request once more.
AfterOutcomeRetry(call, outcome) ==
    IF outcome.kind = "transport" /\ call.sent < 2
    THEN Some([ call EXCEPT !.sent = @ + 1 ])
    ELSE Absent

\* The call in flight after the awaited request has settled: every path
\* from the await ends in a return or a throw, so there is none.
AfterOutcome(call, outcome) == Absent

\* The awaited request settles and the call runs on from there.
OaSettle(outcome) ==
    /\ oaCall # Absent
    /\ oaCall' = AfterOutcome(oaCall[1], outcome)
    /\ oaLast' = IF oaCall' = Absent
                 THEN [ oaCall[1] EXCEPT !.outcome = Some(outcome),
                                         !.result = Some(CallResult(oaCall[1].op, outcome)) ]
                 ELSE oaLast
    /\ UNCHANGED <<clock, redisUp, rlVars, tsVars, utilVars, mwVars, lgVars, oaPkce>>

(***************************************************************************)
(* Logger: structured log entries and the redaction of their context.      *)
(***************************************************************************)
\* The Logger calls a run makes.
MaxLogOps == 2

\* The length above which sanitizeContext truncates a string value.
TruncateLength == 1000

LogLevels == { "error", "warn", "info", "debug" }

\* The levels record of shouldLog.
LevelRank == [ error |-> 0, warn |-> 1, info |-> 2, debug |-> 3 ]

\* config.app with the defaults of the environment schema.
DefaultLogConfig == [ logLevel |-> "info", logFormat |-> "json", isProduction |-> FALSE ]

LogConfigs == [ logLevel : LogLevels, logFormat : { "json", "text" }, isProduction : BOOLEAN ]

\* this.name of the Logger.
LoggerName == "financial-data-server"

\* shouldLog
shouldLog(level, config) == LevelRank[level] <= LevelRank[config.logLevel]

\* The lower-case letter of each upper-case letter.
LowerCase ==
    [ A |-> "a", B |-> "b", C |-> "c", D |-> "d", E |-> "e", F |-> "f", G |-> "g",
      H |-> "h", I |-> "i", J |-> "j", K |-> "k", L |-> "l", M |-> "m", N |-> "n",
      O |-> "o", P |-> "p", Q |-> "q", R |-> "r", S |-> "s", T |-> "t", U |-> "u",
      V |-> "v", W |-> "w", X |-> "x", Y |-> "y", Z |-> "z" ]

\* String.prototype.toLowerCase
RECURSIVE ToLowerCase(_)
ToLowerCase(text) ==
    IF text = "" THEN ""
    ELSE LET ch == SubSeq(text, 1, 1)
         IN  (IF ch \in DOMAIN LowerCase THEN LowerCase[ch] ELSE ch)
                \o ToLowerCase(SubSeq(text, 2, Len(text)))

\* text repeated n times.
RECURSIVE Repeat(_, _)
Repeat(text, n) ==
    IF n = 0 THEN ""
    ELSE IF n % 2 = 0
    THEN LET half == Repeat(text, n \div 2) IN half \o half
    ELSE text \o Repeat(text, n - 1)

\* A value of a context: a string, or an object whose members are strings.
Str(text) == [ kind |-> "string", text |-> text, fields |-> {} ]
Obj(fields) == [ kind |-> "object", text |-> "", fields |-> fields ]

\* The sensitiveKeys of sanitizeContext.
sensitiveKeys ==
    { "password", "token", "secret", "key", "authorization", "api_key", "apikey",
      "client_secret", "refresh_token", "access_token" }

\* sanitizeContext: the entries of the context, each redacted, truncated or
\* copied as it is.
sanitizeContext(context) ==
    { <<e[1],
        IF \E sensitive \in sensitiveKeys : Includes(ToLowerCase(e[1]), sensitive)
        THEN Str("[REDACTED]")
        ELSE IF e[2].kind = "string" /\ Len(e[2].text) > TruncateLength
        THEN Str("[TRUNCATED:" \o ToString(Len(e[2].text)) \o "]")
        ELSE e[2]>> : e \in context }

\* The second argument of a log call: an Error or a context object.
ErrorArg(name, message, stack) ==
    [ isError |-> TRUE, name |-> name, message |-> message, stack |-> stack,
      entries |-> {} ]
ContextArg(entries) ==
    [ isError |-> FALSE, name |-> "", message |-> "", stack |-> "", entries |-> entries ]

\* createLogEntry
createLogEntry(level, message, context, ms) ==
    [ timestamp |-> ms, level |-> level, message |-> message, logger |-> LoggerName,
      context |-> IF context # Absent /\ ~context[1].isError
                  THEN Some(sanitizeContext(context[1].entries)) ELSE Absent,
      error |-> IF context # Absent /\ context[1].isError
                THEN Some([ name |-> context[1].name, message |-> context[1].message,
                            stack |-> Some(context[1].stack) ])
                ELSE Absent ]

\* formatTextLog: what of the entry the text line shows.
formatTextLog(entry, config) ==
    IF entry.error # Absent /\ config.isProduction
    THEN [ entry EXCEPT !.error = Some([ @[1] EXCEPT !.stack = Absent ]) ]
    ELSE entry

\* The lines one log call writes: to stdout in the configured format, and
\* errors in production to stderr as JSON too.
LinesOf(level, entry, config) ==
    { [ stream |-> "stdout", format |-> config.logFormat,
        shown |-> IF config.logFormat = "json" THEN entry
                  ELSE formatTextLog(entry, config) ] }
    \cup IF config.isProduction /\ level = "error"
         THEN { [ stream |-> "stderr", format |-> "json", shown |-> entry ] }
         ELSE {}

\* The keys and values of the contexts logged.
LogKeys == { "password", "userToken", "API_KEY", "userId", "error", "details" }

LogValues ==
    { Str("value1"), Str(Repeat("x", TruncateLength + 1)),
      Obj({ <<"password", "pw1">> }), Obj({ <<"userId", "u1">> }),
      Obj({ <<"error_description", "code expired">>, <<"access_token", "at1">> }) }

LogArguments ==
    { Absent, Some(ErrorArg("Error", "Failed to revoke token", "Error: at revokeToken")) }
    \cup { Some(ContextArg({ <<k, v>> })) : k \in LogKeys, v \in LogValues }
    \cup { Some(ContextArg({ <<"userId", Str("u1")>>, <<k, v>> })) :
            k \in { "password", "details" }, v \in LogValues }

\* logger.error / warn / info / debug(message, context): the log method.
Log(level, message, context) ==
    /\ lgOps < MaxLogOps
    /\ lgOps' = lgOps + 1
    /\ lgSink' = IF shouldLog(level, lgConfig)
                 THEN lgSink \cup LinesOf(level,
                                          createLogEntry(level, message, context, clock),
                                          lgConfig)
                 ELSE lgSink
    /\ UNCHANGED <<clock, redisUp, rlVars, tsVars, utilVars, mwVars, oaVars, lgConfig>>

(***************************************************************************)
(* AuthManager of the MCP server toolkit: authenticate(token).             *)
(***************************************************************************)
\* The authenticate calls a run makes.
MaxAmOps == 2

\* AuthConfig: the type, the secret if any, and the custom validator if
\* any, given by the tokens it accepts.
AuthConfigs ==
    [ type : { "none", "api-key", "bearer", "custom", "other" },
      secret : { Absent, Some(""), Some("s1") },
      customValidator : { Absent, Some({ "s2" }) } ]

\* The token argument: left out, empty, or a string.
AmTokens == { Absent, Some(""), Some("s1"), Some("s2"), Some("s1x") }

\* validateBearerToken: token === this.config.secret
validateBearerToken(config, token) == token = config.secret

\* validateApiKey
validateApiKey(config, token) ==
    IF ~Truthy(token) \/ ~Truthy(config.secret)
    THEN FALSE
    ELSE IF Len(config.secret[1]) # Len(token[1])
    THEN FALSE
    ELSE config.secret[1] = token[1]

\* AuthManager.authenticate
AmAuthenticate(config, token) ==
    CASE config.type = "none" -> Returned(TRUE)
      [] config.type = "api-key" -> Returned(validateApiKey(config, token))
      [] config.type = "bearer" -> Returned(validateBearerToken(config, token))
      [] config.type = "custom" ->
            IF config.customValidator = Absent
            THEN Thrown("Error", "Custom validator not provided")
            ELSE Returned(Truthy(token) /\ token[1] \in config.customValidator[1])
      [] OTHER -> Returned(FALSE)

AmOp(token, outcome, n) == [ token |-> token, outcome |-> outcome, n |-> n ]

NoAmOp == AmOp(Absent, Absent, 0)

\* new AuthManager(config)
NewAuthManager(config) ==
    /\ amConfig = Absent
    /\ amConfig' = Some(config)
    /\ UNCHANGED <<amRest, amLast>>

\* authenticate(token) is called on the AuthManager.
AuthManagerAuthenticate(token) ==
    /\ amConfig # Absent
    /\ amLast.n < MaxAmOps
    /\ amLast' = AmOp(token, Some(AmAuthenticate(amConfig[1], token)), amLast.n + 1)
    /\ UNCHANGED <<amRest, amConfig>>

(***************************************************************************)
(* AsyncQueue (async utilities).  Operation i is the i-th one passed to    *)
(* add; it fulfils with value i or rejects with error i.                   *)
(***************************************************************************)
MaxAdds == 3
MaxQueueConcurrency == 2

OpIds == 1..MaxAdds

\* What an operation settles with: fulfilled with a value or rejected with an
\* error, each identified by the operation it belongs to.
Settlements(id) == [ ok : BOOLEAN, by : {id} ]

\* A process() that starts the head of the queue whatever is running.
ProcessUnbounded(queue, running, max) ==
    IF queue = <<>>
    THEN [ queue |-> queue, running |-> running, started |-> Absent ]
    ELSE [ queue |-> Tail(queue), running |-> running + 1,
           started |-> Some(Head(queue)) ]

\* A process() that takes the newest wrapper instead of the oldest.
ProcessNewest(queue, running, max) ==
    IF running >= max \/ queue = <<>>
    THEN [ queue |-> queue, running |-> running, started |-> Absent ]
    ELSE [ queue |-> SubSeq(queue, 1, Len(queue) - 1), running |-> running + 1,
           started |-> Some(queue[Len(queue)]) ]

\* process() up to its await: nothing when currentRunning >= maxConcurrency
\* or the queue is empty, else currentRunning++ and the shifted wrapper is
\* called, which calls its operation.
process(queue, running, max) ==
    IF running >= max \/ queue = <<>>
    THEN [ queue |-> queue, running |-> running, started |-> Absent ]
    ELSE [ queue |-> Tail(queue), running |-> running + 1,
           started |-> Some(Head(queue)) ]

\* The queue's fields and the operations after process() ran on the given
\* queue and counter; state holds the operations' states before the call.
AfterProcess(queue, running, state) ==
    LET r == process(queue, running, aqMax[1])
    IN /\ aqQueue' = r.queue
       /\ aqRunning' = r.running
       /\ aqState' = IF r.started = Absent THEN state
                     ELSE [state EXCEPT ![r.started[1]] = "started"]
       /\ aqStarted' = IF r.started = Absent THEN aqStarted
                       ELSE Append(aqStarted, r.started[1])

\* new AsyncQueue(maxConcurrency)
NewAsyncQueue(maxConcurrency) ==
    /\ aqMax = Absent
    /\ aqMax' = Some(maxConcurrency)
    /\ UNCHANGED <<aqRest, aqQueue, aqRunning, aqState, aqOutcome, aqPromise, aqStarted>>

\* add(operation): the wrapper is pushed and process() is called.
Add(id) ==
    /\ aqMax # Absent
    /\ aqState[id] = "new"
    /\ \A j \in OpIds : j < id => aqState[j] # "new"
    /\ AfterProcess(Append(aqQueue, id), aqRunning, [aqState EXCEPT ![id] = "queued"])
    /\ UNCHANGED <<aqRest, aqMax, aqOutcome, aqPromise>>

\* The promise of a started operation settles.
OperationSettles(id, outcome) ==
    /\ aqState[id] = "started"
    /\ aqState' = [aqState EXCEPT ![id] = "settled"]
    /\ aqOutcome' = [aqOutcome EXCEPT ![id] = Some(outcome)]
    /\ UNCHANGED <<aqRest, aqMax, aqQueue, aqRunning, aqPromise, aqStarted>>

\* The wrapper resumes after its await: resolve(result), or reject(error) in
\* its catch.
WrapperResumes(id) ==
    /\ aqState[id] = "settled"
    /\ aqState' = [aqState EXCEPT ![id] = "delivered"]
    /\ aqPromise' = [aqPromise EXCEPT ![id] = aqOutcome[id]]
    /\ UNCHANGED <<aqRest, aqMax, aqQueue, aqRunning, aqOutcome, aqStarted>>

\* process() resumes after the wrapper returned or threw: the error is
\* ignored, and finally currentRunning-- and process() again.
ProcessResumes(id) ==
    /\ aqState[id] = "delivered"
    /\ AfterProcess(aqQueue, aqRunning - 1, [aqState EXCEPT ![id] = "done"])
    /\ UNCHANGED <<aqRest, aqMax, aqOutcome, aqPromise>>

(***************************************************************************)
(* retry (async utilities).  The operation's i-th invocation fulfils with  *)
(* a value or rejects with what it threw, an Error or any other value.     *)
(***************************************************************************)
MaxAttempts == 3
RetryBaseDelayMs == 1000

RetryDelays == { 0, 1, RetryBaseDelayMs }

\* What an invocation settles with.  isError tells an Error instance from
\* another thrown value; text is the message, or String(value).
RetryOutcomes ==
    [ ok : {TRUE}, isError : {FALSE}, text : {"v1", "v2"} ]
        \cup [ ok : {FALSE}, isError : BOOLEAN, text : {"e1", "e2"} ]

\* error instanceof Error ? error : new Error(String(error))
ToError(outcome) == [ outcome EXCEPT !.isError = TRUE ]

\* A constant delay between attempts.
SleepFlat(delayMs, attempt) == delayMs

\* The argument of sleep after the failure of the given attempt.
SleepMs(delayMs, attempt) == delayMs * attempt

NoRetry ==
    [ pc |-> "none", maxAttempts |-> 0, delayMs |-> 0, attempt |-> 0,
      outcomes |-> <<>>, waits |-> <<>>, lastError |-> Absent, result |-> Absent ]

\* retry(operation, maxAttempts, delayMs) up to its first await: the loop is
\* entered and the operation invoked, or with no attempt allowed lastError
\* is thrown unassigned.
Retry(maxAttempts, delayMs) ==
    /\ rtCall.pc = "none"
    /\ rtCall' = [ NoRetry EXCEPT !.maxAttempts = maxAttempts, !.delayMs = delayMs,
                                  !.attempt = IF maxAttempts >= 1 THEN 1 ELSE 0,
                                  !.pc = IF maxAttempts >= 1 THEN "awaiting" ELSE "thrown" ]
    /\ UNCHANGED rtRest

\* The invocation awaited settles: its value is returned, or lastError is
\* set and thrown on the last attempt, or else the sleep begins.
RetrySettles(outcome) ==
    /\ rtCall.pc = "awaiting"
    /\ LET c == [ rtCall EXCEPT !.outcomes = Append(@, outcome) ]
       IN rtCall' =
            IF outcome.ok
            THEN [ c EXCEPT !.pc = "returned", !.result = Some(outcome) ]
            ELSE IF c.attempt = c.maxAttempts
            THEN [ c EXCEPT !.pc = "thrown", !.lastError = Some(ToError(outcome)) ]
            ELSE [ c EXCEPT !.pc = "sleeping", !.lastError = Some(ToError(outcome)),
                            !.waits = Append(@, SleepMs(c.delayMs, c.attempt)) ]
    /\ UNCHANGED rtRest

\* The sleep ends: attempt++ and the operation is invoked again.
RetryWakes ==
    /\ rtCall.pc = "sleeping"
    /\ rtCall' = [ rtCall EXCEPT !.pc = "awaiting", !.attempt = @ + 1 ]
    /\ UNCHANGED rtRest

(***************************************************************************)
(* MCPServer over stdio.  A line of input is modelled by what JSON.parse   *)
(* makes of it; every chunk holds whole lines, so the transport's buffer   *)
(* is empty between chunks.                                                *)
(***************************************************************************)
MaxMessages == 2
MaxStarts == 2
MaxRegistrations == 2

PARSE_ERROR == 0 - 32700
METHOD_NOT_FOUND == 0 - 32601
MCP_TOOL_ERROR == 0 - 32000

\* A JSON value at the key id: missing, a number or a string.
Id(t, v) == [ t |-> t, v |-> v ]

NoId == Id("absent", "")

\* The members of a parsed line that the server reads.  parses: JSON.parse
\* returns; jsonrpc: the value is an object whose jsonrpc is '2.0'; method:
\* a string, Absent for a value that is no string; params: the kind of
\* value, and the name member of an object.
Message(parses, jsonrpc, id, method, params, name) ==
    [ parses |-> parses, jsonrpc |-> jsonrpc, id |-> id, method |-> method,
      params |-> params, name |-> name ]

Request(id, method, params, name) ==
    Message(TRUE, TRUE, id, Some(method), params, name)

Messages ==
    { Message(FALSE, FALSE, NoId, Absent, "absent", Absent),
      Message(TRUE, FALSE, Id("num", "1"), Some("initialize"), "absent", Absent),
      Request(NoId, "initialize", "absent", Absent),
      Message(TRUE, TRUE, Id("num", "1"), Absent, "absent", Absent),
      Request(Id("num", "1"), "initialize", "absent", Absent),
      Request(Id("num", "1"), "initialize", "array", Absent),
      Request(Id("num", "0"), "initialize", "array", Absent),
      Request(Id("str", "a"), "tools/list", "object", Absent),
      Request(Id("num", "1"), "ping", "absent", Absent),
      Request(Id("num", "1"), "tools/call", "absent", Absent),
      Request(Id("num", "0"), "tools/call", "object", Some("echo")),
      Request(Id("num", "1"), "tools/call", "object", Some("t1")),
      Request(Id("str", "a"), "tools/call", "object", Some("nosuch")) }

ToolNames == { "echo", "get_server_info", "t1" }

\* The registerTool calls made on the server by its owner.
Registrations ==
    [ name : {"t1"}, description : {"d1", "d2"}, handler : {"h1", "h2"} ]

\* 'jsonrpc' in obj, 'id' in obj, 'method' in obj and jsonrpc === '2.0'; a
\* method that is no string is still a member.
isRequest(message) == message.jsonrpc /\ message.id.t # "absent"

\* mcpRequestSchema.parse returns: id is a string or a number, method a
\* string and params, if present, an object.
validateRequestOk(message) ==
    /\ message.jsonrpc
    /\ message.id.t \in {"num", "str"}
    /\ message.method # Absent
    /\ message.params \in {"absent", "object"}

\* toolCallRequestSchema.parse(request.params) returns.
validateToolCallOk(message) == message.params = "object" /\ message.name # Absent

\* if (data.id) in the catch block of handleMessage
IdTruthy(id) == id.t # "absent" /\ id.v \notin {"", "0"}

\* An MCPResponse: createResponse gives a result, createErrorResponse an
\* error with a code.  tag tells the results and the messages apart; tools
\* is the list a tools/list result carries.
Response(id, kind, code, tag, tools) ==
    [ id |-> id, kind |-> kind, code |-> code, tag |-> tag, tools |-> tools ]

createResponse(id, tag, tools) == Response(id, "result", 0, tag, tools)

createErrorResponse(id, code, tag) == Response(id, "error", code, tag, Absent)

\* this.listeners(`tool:${name}`)[0]
executeToolCallHandler(name) == msHandlers[name][1]

\* What handleMessage does with a line before any handler's promise is
\* awaited: the responses it sends, and the handler it called, if any.
Handling(responses, handler) == [ responses |-> responses, handler |-> handler ]

handleMessage(message) ==
    IF ~message.parses THEN Handling(<<>>, Absent)
    ELSE IF ~isRequest(message) THEN Handling(<<>>, Absent)
    ELSE IF ~validateRequestOk(message)
    THEN IF IdTruthy(message.id)
         THEN Handling(<<createErrorResponse(message.id, PARSE_ERROR, "Parse error")>>, Absent)
         ELSE Handling(<<>>, Absent)
    ELSE CASE message.method[1] = "initialize" ->
                Handling(<<createResponse(message.id, "initialize", Absent)>>, Absent)
           [] message.method[1] = "tools/list" ->
                Handling(<<createResponse(message.id, "tools/list", Some(msTools))>>, Absent)
           [] message.method[1] = "tools/call" ->
                IF ~validateToolCallOk(message)
                THEN Handling(<<createErrorResponse(message.id, MCP_TOOL_ERROR,
                                                    "ZodError")>>, Absent)
                ELSE IF message.name[1] \notin ToolNames \/ msTools[message.name[1]] = Absent
                THEN Handling(<<createErrorResponse(message.id, MCP_TOOL_ERROR,
                                                    "Tool not found")>>, Absent)
                ELSE Handling(<<>>, Some(executeToolCallHandler(message.name[1])))
           [] OTHER ->
                Handling(<<createErrorResponse(message.id, METHOD_NOT_FOUND,
                                               "Method not found")>>, Absent)

\* The handlers the server registers for itself always return.
HandlerOutcomes(handler) ==
    IF handler \in {"handleEcho", "handleGetServerInfo"} THEN {TRUE} ELSE BOOLEAN

\* The response of handleToolCall once the handler's promise settled.
ToolCallResponse(id, handler, returned) ==
    IF returned THEN createResponse(id, handler, Absent)
    ELSE createErrorResponse(id, MCP_TOOL_ERROR, "handler threw")

\* A response written to stdout, with the server's state at that instant.
Sent(response) == [ response |-> response, running |-> msRunning ]

RECURSIVE Times(_, _)
\* The sequence s repeated n times.
Times(s, n) == IF n = 0 THEN <<>> ELSE s \o Times(s, n - 1)

\* new MCPServer(config, logger): registerDefaultTools
NewMCPServer(transport) ==
    /\ msConfig = Absent
    /\ msConfig' = Some([transport |-> transport])
    /\ msTools' = [msTools EXCEPT !["echo"] = Some("Echoes back the provided text"),
                                  !["get_server_info"] = Some("Returns information")]
    /\ msHandlers' = [msHandlers EXCEPT !["echo"] = <<"handleEcho">>,
                                        !["get_server_info"] = <<"handleGetServerInfo">>]
    /\ UNCHANGED <<msRest, msRunning, msListeners, msEnded, msLog>>

\* registerTool(tool, handler): tools.set and this.on
registerTool(tool) ==
    /\ msConfig # Absent
    /\ Len(msHandlers[tool.name]) < MaxRegistrations
    /\ msTools' = [msTools EXCEPT ![tool.name] = Some(tool.description)]
    /\ msHandlers' = [msHandlers EXCEPT ![tool.name] = Append(@, tool.handler)]
    /\ UNCHANGED <<msRest, msConfig, msRunning, msListeners, msEnded, msLog>>

\* start(): throws when running or when the transport is not stdio, else
\* setupStdioTransport puts its listeners on stdin and running becomes true.
Start ==
    /\ msConfig # Absent
    /\ msListeners < MaxStarts
    /\ IF msRunning \/ msConfig[1].transport # "stdio"
       THEN UNCHANGED <<msRunning, msListeners>>
       ELSE msRunning' = TRUE /\ msListeners' = msListeners + 1
    /\ UNCHANGED <<msRest, msConfig, msEnded, msTools, msHandlers, msLog>>

\* stop()
Stop ==
    /\ msConfig # Absent
    /\ msRunning' = FALSE
    /\ UNCHANGED <<msRest, msConfig, msListeners, msEnded, msTools, msHandlers, msLog>>

\* stdin emits 'end': every 'end' listener calls stop().
StdinEnd ==
    /\ ~msEnded
    /\ msEnded' = TRUE
    /\ msRunning' = IF msListeners > 0 THEN FALSE ELSE msRunning
    /\ UNCHANGED <<msRest, msConfig, msListeners, msTools, msHandlers, msLog>>

\* stdin emits 'data' with one line: every 'data' listener calls
\* handleMessage with it.
StdinData(message) ==
    /\ ~msEnded
    /\ Len(msLog) < MaxMessages
    /\ LET h == handleMessage(message)
       IN msLog' = Append(msLog,
            [ message |-> message,
              running |-> msRunning,
              handled |-> msListeners,
              handler |-> IF msListeners > 0 THEN h.handler ELSE Absent,
              latest |-> IF msListeners > 0 /\ h.handler # Absent
                         THEN Some(msHandlers[message.name[1]][Len(msHandlers[message.name[1]])])
                         ELSE Absent,
              pending |-> IF h.handler # Absent THEN msListeners ELSE 0,
              answers |-> Times([i \in 1..Len(h.responses) |-> Sent(h.responses[i])],
                                msListeners) ])
    /\ UNCHANGED <<msRest, msConfig, msRunning, msListeners, msEnded, msTools, msHandlers>>

\* The promise of a handler called for the i-th line settles: handleToolCall
\* returns its response and handleMessage sends it.
HandlerSettles(i, returned) ==
    /\ i \in 1..Len(msLog)
    /\ msLog[i].pending > 0
    /\ returned \in HandlerOutcomes(msLog[i].handler[1])
    /\ msLog' = [msLog EXCEPT ![i].pending = @ - 1,
                              ![i].answers = Append(@,
                                  Sent(ToolCallResponse(msLog[i].message.id,
                                                        msLog[i].handler[1], returned)))]
    /\ UNCHANGED <<msRest, msConfig, msRunning, msListeners, msEnded, msTools, msHandlers>>

(***************************************************************************)
(* Initial state.                                                          *)
(***************************************************************************)
InitQuiet ==
    /\ clock = 0
    /\ redisUp = TRUE
    /\ rlZset = [k \in RLKeys |-> {}]
    /\ rlExpire = [k \in RLKeys |-> NoExpire]
    /\ rlPc = [p \in Callers |-> "idle"]
    /\ rlCall = [p \in Callers |-> NoCall]
    /\ rlLast = NoOp
    /\ rlServed = EmptyBag
    /\ rlFresh = {}
    /\ rlOps = 0
    /\ tsPc = [p \in Callers |-> "idle"]
    /\ tsCall = [p \in Callers |-> NoTsCall]
    /\ tsLast = NoTsOp
    /\ tsGhost = [pr \in TSPairs |-> Absent]
    /\ tsOwner = [pr \in TSPairs |-> 0]
    /\ tsOps = 0
    /\ mwLast = NoMwOp
    /\ mwCall = Absent
    /\ oaPkce = Absent
    /\ oaCall = Absent
    /\ oaLast = NoOaOp
    /\ lgSink = {}
    /\ lgOps = 0
    /\ amConfig = Absent
    /\ amLast = NoAmOp
    /\ aqMax = Absent
    /\ aqQueue = <<>>
    /\ aqRunning = 0
    /\ aqState = [id \in OpIds |-> "new"]
    /\ aqOutcome = [id \in OpIds |-> Absent]
    /\ aqPromise = [id \in OpIds |-> Absent]
    /\ aqStarted = <<>>
    /\ rtCall = NoRetry
    /\ msConfig = Absent
    /\ msRunning = FALSE
    /\ msListeners = 0
    /\ msEnded = FALSE
    /\ msTools = [name \in ToolNames |-> Absent]
    /\ msHandlers = [name \in ToolNames |-> <<>>]
    /\ msLog = <<>>

\* No call has been made and Redis holds no key.
Init ==
    /\ InitQuiet
    /\ tsStore = [k \in TSKeys |-> Absent]
    /\ lgConfig = DefaultLogConfig

\* What storeToken(u1, c1, {at1}, expiresAt 10) at time 0 leaves: a record
\* that expires at 10 s under a key that lives for the floor of 60 s.
ShortLivedStore ==
    LET rec == StoredTokenOf("u1", "c1",
                   [ access_token |-> "at1", refresh_token |-> Absent,
                     token_type |-> "Bearer" ], 10, ContextScopes)
    IN  SetEx([k \in TSKeys |-> Absent], generateAccessTokenKey("u1", "c1"),
              TtlSeconds(10, 0), encrypt(Stringify(rec), "iv1"), 0)

\* No call is in flight and Redis holds that short-lived record.
InitTSRace == InitQuiet /\ tsStore = ShortLivedStore /\ lgConfig = DefaultLogConfig

\* The same with the logging configuration the environment gives.
InitLogger ==
    /\ InitQuiet
    /\ tsStore = [k \in TSKeys |-> Absent]
    /\ lgConfig \in LogConfigs

\* The pair whose record an earlier storeToken has left in Redis.
EarlierPair == <<"u2", "c1">>

\* What storeToken(u2, c1, {at1, rt1}, expiresAt 100) at time 0 leaves.
EarlierStore ==
    LET rec == StoredTokenOf(EarlierPair[1], EarlierPair[2],
                   [ access_token |-> "at1", refresh_token |-> Some("rt1"),
                     token_type |-> "Bearer" ], 100, ContextScopes)
        blob == encrypt(Stringify(rec), "iv1")
        ttl == TtlSeconds(100, 0)
        empty == [k \in TSKeys |-> Absent]
    IN  SetEx(SetEx(empty, generateAccessTokenKey(EarlierPair[1], EarlierPair[2]),
                    ttl, blob, 0),
              generateRefreshTokenKey(EarlierPair[1], EarlierPair[2]),
              ttl + GraceSeconds, blob, 0)

\* No call is in flight and Redis holds the record of EarlierPair.
InitTSPairs == InitQuiet /\ tsStore = EarlierStore /\ lgConfig = DefaultLogConfig

\* Redis drops a key whose TTL has run out by server time t.
ExpireKeys(z, expire, t) ==
    [k \in DOMAIN z |-> IF expire[k] # NoExpire /\ expire[k][1] <= t THEN {} ELSE z[k]]

ExpireTtls(expire, t) ==
    [k \in DOMAIN expire |->
        IF expire[k] # NoExpire /\ expire[k][1] <= t THEN NoExpire ELSE expire[k]]

\* The instants the clock visits: the first milliseconds, the same offsets one
\* window later, and an instant by which every TTL set before has run out.
RLTimes ==
    (0..MaxTime)
        \cup { ConfigWindowMs + t : t \in 0..MaxTime }
        \cup { ConfigWindowMs + MaxTime + Ceil(ConfigWindowMs, MsPerSecond) * MsPerSecond }

\* The instants the token store is observed at, in milliseconds: the start,
\* each expiresAt and the end of the floor TTL.
TSTimes ==
    { 0, FloorSeconds * MsPerSecond }
        \cup { e * MsPerSecond : e \in ExpiresAtChoices }

\* Time passes to the instant t; Redis drops the keys whose TTL has run out.
TickTo(t) ==
    /\ t > clock
    /\ clock' = t
    /\ rlZset' = ExpireKeys(rlZset, rlExpire, t)
    /\ rlExpire' = ExpireTtls(rlExpire, t)
    /\ tsStore' = TsExpire(tsStore, t)
    /\ UNCHANGED <<redisUp, rlPc, rlCall, rlLast, rlServed, rlFresh, rlOps, otherVars>>
    /\ UNCHANGED <<tsPc, tsCall, tsLast, tsGhost, tsOwner, tsOps>>

Tick == \E t \in RLTimes : TickTo(t)

TickTS == \E t \in TSTimes : TickTo(t)

RedisFails ==
    /\ redisUp
    /\ redisUp' = FALSE
    /\ UNCHANGED <<clock, rlVars, tsVars, otherVars>>

RedisRecovers ==
    /\ ~redisUp
    /\ redisUp' = TRUE
    /\ UNCHANGED <<clock, rlVars, tsVars, otherVars>>

(***************************************************************************)
(* The rate limiter on one key, with time passing and Redis failing.       *)
(***************************************************************************)
OneTriple == { <<"u1", "c1", "e1">> }

NextRL ==
    \/ \E p \in Callers, t \in OneTriple : checkRateLimit(p, t[1], t[2], t[3])
    \/ \E p \in Callers : EvalScript(p)
    \/ \E p \in Callers : EvalFail(p)
    \/ \E t \in OneTriple : resetRateLimit(t[1], t[2], t[3])
    \/ Tick
    \/ RedisFails
    \/ RedisRecovers

SpecRL == Init /\ [][NextRL]_vars

(***************************************************************************)
(* The rate limiter of one key with status queries and custom windows.     *)
(***************************************************************************)
NextRLStatus ==
    \/ \E p \in Callers, t \in OneTriple, maxRequests \in 1..MaxLimit,
          windowMs \in CustomWindows :
            checkRateLimitWith(p, t[1], t[2], t[3], maxRequests, windowMs)
    \/ \E p \in Callers : EvalScript(p)
    \/ \E p \in Callers : EvalFail(p)
    \/ \E p \in Callers, t \in OneTriple : getRateLimitStatus(p, t[1], t[2], t[3])
    \/ \E p \in Callers : StatusPrune(p)
    \/ \E p \in Callers : StatusCount(p)
    \/ Tick
    \/ RedisFails
    \/ RedisRecovers

SpecRLStatus == Init /\ [][NextRLStatus]_vars

(***************************************************************************)
(* The rate limiter on several keys and the global key, at one instant.    *)
(***************************************************************************)
NextRLKeys ==
    \/ \E p \in Callers, t \in UserTriples : checkRateLimit(p, t[1], t[2], t[3])
    \/ \E p \in Callers, e \in Endpoints : checkGlobalRateLimit(p, e)
    \/ \E p \in Callers : EvalScript(p)
    \/ \E p \in Callers : EvalFail(p)
    \/ \E t \in UserTriples : resetRateLimit(t[1], t[2], t[3])
    \/ RedisFails
    \/ RedisRecovers

SpecRLKeys == Init /\ [][NextRLKeys]_vars

\* Values under a token key that storeToken did not produce: one that does
\* not split into iv ':' data, one enciphered under another key, one whose
\* plaintext is not JSON, and one whose JSON lacks required fields.
CorruptBlobs ==
    { [ iv |-> "", data |-> [ cipher |-> "aes-256-cbc", key |-> EncryptionKey, text |-> << >> ] ],
      [ iv |-> "iv1",
        data |-> [ cipher |-> "aes-256-cbc", key |-> "k0",
                   text |-> Stringify(StoredTokenOf("u1", "c1",
                                [ access_token |-> "at0", refresh_token |-> Absent,
                                  token_type |-> "Bearer" ], 100, ContextScopes)) ] ],
      encrypt(<< <<"", "">> >>, "iv1"),
      encrypt(<< <<"accessToken", "at1">> >>, "iv1") }

\* The value of a live token key is damaged or replaced outside storeToken.
Corrupt(key, blob) ==
    /\ tsStore[key] # Absent
    /\ tsStore[key][1].value # blob
    /\ tsStore' = [tsStore EXCEPT ![key] = Some([ @[1] EXCEPT !.value = blob ])]
    /\ tsGhost' = [tsGhost EXCEPT ![PairOf(key)] = Absent]
    /\ tsOwner' = [tsOwner EXCEPT ![PairOf(key)] = 0]
    /\ UNCHANGED <<clock, redisUp, rlVars, otherVars, tsPc, tsCall, tsLast, tsOps>>

(***************************************************************************)
(* The token store of one (user, client) pair.                             *)
(***************************************************************************)
NextTS ==
    \/ \E p \in Callers, pr \in OnePair, a \in AccessTokens,
          e \in ExpiresAtChoices, iv \in IVs :
            storeToken(p, pr[1], pr[2], a, e, iv)
    \/ \E p \in Callers : StoreAccess(p)
    \/ \E p \in Callers : StoreRefresh(p)
    \/ \E p \in Callers, pr \in OnePair : getToken(p, pr[1], pr[2])
    \/ \E p \in Callers, pr \in OnePair : getRefreshToken(p, pr[1], pr[2])
    \/ \E p \in Callers, pr \in OnePair : deleteToken(p, pr[1], pr[2])
    \/ \E p \in Callers : GetRead(p)
    \/ \E p \in Callers : DelAccess(p)
    \/ \E p \in Callers : DelRefresh(p)
    \/ TickTS
    \/ RedisFails
    \/ RedisRecovers

SpecTS == Init /\ [][NextTS]_vars

(***************************************************************************)
(* The AuthMiddleware over time.                                           *)
(***************************************************************************)
NextAuth ==
    \/ \E scopes \in ScopeLists, requiredScopes \in ScopeLists :
            Authorize(scopes, requiredScopes)
    \/ \E request \in Requests : Authenticate(request)
    \/ TickTS

SpecAuth == Init /\ [][NextAuth]_vars

(***************************************************************************)
(* The middleware of createMiddleware over time.                           *)
(***************************************************************************)
NextMw ==
    \/ \E options \in MwOptions, request \in MwRequests : Middleware(options, request)
    \/ MiddlewareResume
    \/ TickTS

SpecMw == Init /\ [][NextMw]_vars

(***************************************************************************)
(* The token lifetime utilities over time.                                 *)
(***************************************************************************)
NextLifetime ==
    \/ \E context \in LifetimeContexts : GetTokenLifetime(context)
    \/ \E context \in LifetimeContexts, thresholdSeconds \in Thresholds :
            ShouldRefreshToken(context, thresholdSeconds)
    \/ TickTS

SpecLifetime == Init /\ [][NextLifetime]_vars

(***************************************************************************)
(* The OAuthClient over time.                                              *)
(***************************************************************************)
NextOAuth ==
    \/ GeneratePKCE
    \/ \E state \in RandomStates : ExchangeCodeForToken(state)
    \/ RefreshToken
    \/ RevokeToken
    \/ GetUserInfo
    \/ \E outcome \in HttpOutcomes : OaSettle(outcome)

SpecOAuth == Init /\ [][NextOAuth]_vars

(***************************************************************************)
(* The Logger over time.                                                   *)
(***************************************************************************)
NextLogger ==
    \E level \in LogLevels, context \in LogArguments : Log(level, "message", context)

SpecLogger == InitLogger /\ [][NextLogger]_vars

(***************************************************************************)
(* The token store of one pair that starts with a short-lived record.      *)
(***************************************************************************)
SpecTSRace == InitTSRace /\ [][NextTS]_vars

(***************************************************************************)
(* The token store of two pairs whose identifiers contain ':'.             *)
(***************************************************************************)
NextTSColon ==
    \/ \E p \in Callers, pr \in ColonPairs, a \in AccessTokens,
          e \in ExpiresAtChoices, iv \in IVs :
            storeToken(p, pr[1], pr[2], a, e, iv)
    \/ \E p \in Callers : StoreAccess(p)
    \/ \E p \in Callers : StoreRefresh(p)
    \/ \E p \in Callers, pr \in ColonPairs : getToken(p, pr[1], pr[2])
    \/ \E p \in Callers, pr \in ColonPairs : getRefreshToken(p, pr[1], pr[2])
    \/ \E p \in Callers, pr \in ColonPairs : deleteToken(p, pr[1], pr[2])
    \/ \E p \in Callers : GetRead(p)
    \/ \E p \in Callers : DelAccess(p)
    \/ \E p \in Callers : DelRefresh(p)

SpecTSColon == Init /\ [][NextTSColon]_vars

(***************************************************************************)
(* The AuthManager over time.                                              *)
(***************************************************************************)
NextAuthManager ==
    \/ \E config \in AuthConfigs : NewAuthManager(config)
    \/ \E token \in AmTokens : AuthManagerAuthenticate(token)

SpecAuthManager == Init /\ [][NextAuthManager]_vars

(***************************************************************************)
(* The AsyncQueue over time; with fairness, every operation started        *)
(* settles and every continuation scheduled runs.                          *)
(***************************************************************************)
NextAsyncQueue ==
    \/ \E maxConcurrency \in 0..MaxQueueConcurrency : NewAsyncQueue(maxConcurrency)
    \/ \E id \in OpIds : Add(id)
    \/ \E id \in OpIds : \E outcome \in Settlements(id) : OperationSettles(id, outcome)
    \/ \E id \in OpIds : WrapperResumes(id)
    \/ \E id \in OpIds : ProcessResumes(id)

SpecAsyncQueue == Init /\ [][NextAsyncQueue]_vars

SpecAsyncQueueFair ==
    /\ SpecAsyncQueue
    /\ \A id \in OpIds :
          /\ WF_vars(\E outcome \in Settlements(id) : OperationSettles(id, outcome))
          /\ WF_vars(WrapperResumes(id))
          /\ WF_vars(ProcessResumes(id))

(***************************************************************************)
(* One retry call over time.                                               *)
(***************************************************************************)
NextRetry ==
    \/ \E maxAttempts \in 0..MaxAttempts, delayMs \in RetryDelays :
          Retry(maxAttempts, delayMs)
    \/ \E outcome \in RetryOutcomes : RetrySettles(outcome)
    \/ RetryWakes

SpecRetry == Init /\ [][NextRetry]_vars

(***************************************************************************)
(* The MCPServer, its owner and its input over time.                       *)
(***************************************************************************)
NextMCPServer ==
    \/ \E transport \in {"stdio", "http"} : NewMCPServer(transport)
    \/ \E tool \in Registrations : registerTool(tool)
    \/ Start
    \/ Stop
    \/ StdinEnd
    \/ \E message \in Messages : StdinData(message)
    \/ \E i \in 1..MaxMessages, returned \in BOOLEAN : HandlerSettles(i, returned)

SpecMCPServer == Init /\ [][NextMCPServer]_vars

(***************************************************************************)
(* The token store of one pair whose stored values can be damaged.         *)
(***************************************************************************)
NextTSCorrupt ==
    \/ NextTS
    \/ \E pr \in OnePair, blob \in CorruptBlobs :
            Corrupt(generateAccessTokenKey(pr[1], pr[2]), blob)

SpecTSCorrupt == Init /\ [][NextTSCorrupt]_vars

(***************************************************************************)
(* The token store of several pairs at one instant.                        *)
(***************************************************************************)
NextTSPairs ==
    \/ \E p \in Callers, pr \in PlainPairs, a \in AccessTokens,
          e \in ExpiresAtChoices, iv \in IVs :
            storeToken(p, pr[1], pr[2], a, e, iv)
    \/ \E p \in Callers : StoreAccess(p)
    \/ \E p \in Callers : StoreRefresh(p)
    \/ \E p \in Callers, pr \in PlainPairs : getToken(p, pr[1], pr[2])
    \/ \E p \in Callers, pr \in PlainPairs : getRefreshToken(p, pr[1], pr[2])
    \/ \E p \in Callers, pr \in PlainPairs : deleteToken(p, pr[1], pr[2])
    \/ \E p \in Callers : GetRead(p)
    \/ \E p \in Callers : DelAccess(p)
    \/ \E p \in Callers : DelRefresh(p)
    \/ RedisFails
    \/ RedisRecovers

SpecTSPairs == InitTSPairs /\ [][NextTSPairs]_vars

(***************************************************************************)
(* Properties of the rate limiter.                                         *)
(***************************************************************************)
ServedOn(k) == { e \in BagToSet(rlServed) : e.key = k }

\* How many of the checks in S (a set of served checks) the history holds.
Copies(S) == BagCardinality([ e \in S |-> rlServed[e] ])

SameConfig(k) ==
    \A e1, e2 \in ServedOn(k) :
        e1.maxRequests = e2.maxRequests /\ e1.windowMs = e2.windowMs

LastServedCheck == rlLast.kind = "check" /\ ~rlLast.failed

\* The count the script compared with max_requests, read off the result.
CountUsed == IF rlLast.res.allowed THEN rlLast.res.current - 1 ELSE rlLast.res.current

\* C1: for every key whose checks all carried the same maxRequests and
\* windowMs and were served by the store, at most maxRequests of the admitted
\* checks have their timestamps in any one interval [a, a + windowMs), equal
\* timestamps of distinct calls included.
C1_AdmissionBound ==
    \A k \in RLKeys :
        SameConfig(k) =>
            \A e \in ServedOn(k) :
                Copies({ f \in ServedOn(k) :
                            f.allowed /\ e.now <= f.now /\ f.now < e.now + e.windowMs })
                    <= e.maxRequests

\* C2: when the N checks served on a key since its window was empty all
\* carried the same configuration with maxRequests = K < N and lie inside one
\* window, exactly K of them were admitted and N - K rejected.
C2_ExactlyKAdmitted ==
    \A k \in RLKeys :
        ( /\ SameConfig(k)
          /\ \A e1, e2 \in ServedOn(k) : e1.now - e2.now < e1.windowMs )
        => \A e \in ServedOn(k) :
              Copies(ServedOn(k)) > e.maxRequests =>
                  /\ Copies({ f \in ServedOn(k) : f.allowed }) = e.maxRequests
                  /\ Copies({ f \in ServedOn(k) : ~f.allowed })
                        = Copies(ServedOn(k)) - e.maxRequests

\* C3: a check whose store call failed did not raise and returned
\* allowed = true, current = 0 and remaining = limit, the configured limit.
C3_FailOpen ==
    (rlLast.kind = "check" /\ rlLast.failed) =>
        /\ ~rlLast.raised
        /\ rlLast.res.allowed
        /\ rlLast.res.current = 0
        /\ rlLast.res.limit = rlLast.maxRequests
        /\ rlLast.res.remaining = rlLast.res.limit

C3_Witness ==
    /\ rlLast.kind = "check"
    /\ rlLast.failed
    /\ rlZset[rlLast.key] # {}

\* The timestamps a check at rlLast.now finds still in its window.
InWindow == { t \in rlLast.before : t > rlLast.now - rlLast.windowMs }

\* C4: an admitted result carries no retryAfter; a rejected result carries a
\* retryAfter of at least 1, the rounded-up seconds from now until the oldest
\* timestamp still in the window plus windowMs.
C4_RetryAfter ==
    rlLast.kind = "check" =>
        IF rlLast.res.allowed
        THEN rlLast.res.retryAfter = Absent
        ELSE /\ rlLast.res.retryAfter # Absent
             /\ rlLast.res.retryAfter[1] >= 1
             /\ InWindow # {}
             /\ rlLast.res.retryAfter[1]
                    = Ceil(SetMin(InWindow) + rlLast.windowMs - rlLast.now, MsPerSecond)

C4_Witness ==
    /\ LastServedCheck
    /\ ~rlLast.res.allowed
    /\ rlLast.res.retryAfter = Some(1)
    /\ SetMin(InWindow) < rlLast.now

\* C5 as claimed: the timestamps removed are those older than now - windowMs,
\* and the count used is the number of stored timestamps t >= now - windowMs.
C5_PruneOlderOnly ==
    LastServedCheck =>
        /\ rlLast.pruned = { t \in rlLast.before : t < rlLast.now - rlLast.windowMs }
        /\ CountUsed
              = Cardinality({ t \in rlLast.before : t >= rlLast.now - rlLast.windowMs })

\* C5 as amended: the timestamps removed are those at or before
\* now - windowMs, and the count used is the number of stored timestamps
\* t > now - windowMs.
C5_PruneAtOrBefore ==
    LastServedCheck =>
        /\ rlLast.pruned = { t \in rlLast.before : t <= rlLast.now - rlLast.windowMs }
        /\ CountUsed
              = Cardinality({ t \in rlLast.before : t > rlLast.now - rlLast.windowMs })

C5_Witness ==
    /\ LastServedCheck
    /\ (rlLast.now - rlLast.windowMs) \in rlLast.pruned
    /\ InWindow # {}

\* A step that completes a check issued through `via`.
CheckStep(via) ==
    /\ rlOps' = rlOps + 1
    /\ rlLast'.kind = "check"
    /\ rlLast'.via = via

\* C6: no per-user check changes the window checkGlobalRateLimit counts, and
\* no checkGlobalRateLimit changes the window a per-user check counts.
C6_GlobalIndependent ==
    [][ /\ CheckStep("direct") =>
            \A e \in Endpoints : rlZset'[globalKey(e)] = rlZset[globalKey(e)]
        /\ CheckStep("global") =>
            \A t \in UserTriples :
                rlZset'[generateKey(t[1], t[2], t[3])] = rlZset[generateKey(t[1], t[2], t[3])]
      ]_vars

\* A step in which resetRateLimit runs while the store is reachable.
ResetStep ==
    /\ rlOps' = rlOps + 1
    /\ rlLast'.kind = "reset"
    /\ redisUp

\* C7: a reset removes the whole window of its key and no other key's; the
\* next served check on the key is admitted with current = 1; a reset of an
\* already empty key raises nothing and leaves the store unchanged.
C7_Reset ==
    /\ [](LastServedCheck /\ rlLast.afterReset =>
            rlLast.res.allowed /\ rlLast.res.current = 1)
    /\ [][ ResetStep =>
            /\ ~rlLast'.raised
            /\ rlZset'[rlLast'.key] = {}
            /\ \A k \in RLKeys \ {rlLast'.key} :
                  rlZset'[k] = rlZset[k] /\ rlExpire'[k] = rlExpire[k]
            /\ rlZset[rlLast'.key] = {} => (rlZset' = rlZset /\ rlExpire' = rlExpire)
         ]_vars

C7_Witness ==
    /\ LastServedCheck
    /\ rlLast.afterReset
    /\ rlLast.res.current = 1
    /\ \E k \in RLKeys \ {rlLast.key} : rlZset[k] # {}

(***************************************************************************)
(* Properties of the token store.                                          *)
(***************************************************************************)
\* The last completed operation is a getToken / getRefreshToken whose
\* redis.get was answered, made after a storeToken of the same pair had
\* returned with no write to the pair's keys since.
ReadAfterStore(op) ==
    /\ tsLast.op = op
    /\ tsLast.readOk
    /\ tsLast.ghost # Absent

\* The stored record had not reached its expiresAt (seconds) at the instant ms.
LiveAt(rec, ms) == rec.expiresAt * MsPerSecond > ms

\* C8: getToken never returns a record whose expiresAt is less than or equal
\* to the time of the call; such a record is reported as absent.
C8_NeverReturnsExpired ==
    (tsLast.op = "getToken" /\ tsLast.result # Absent)
        => LiveAt(tsLast.result[1], tsLast.readAt)

\* An expired record still held by Redis (the key's TTL is live) was read and
\* reported as absent.
C8_Witness ==
    /\ ReadAfterStore("getToken")
    /\ tsLast.readAt < tsLast.ghost[1].accessUntil
    /\ ~LiveAt(tsLast.ghost[1].rec, tsLast.readAt)
    /\ tsLast.result = Absent

\* C9 as stated: storeToken then getToken with no intervening write returns
\* the stored record when the get is within the access key's TTL window, and
\* absent once that TTL has elapsed.
C9_RoundTripWithinTtl ==
    ReadAfterStore("getToken") =>
        LET g == tsLast.ghost[1]
        IN  IF tsLast.readAt < g.accessUntil
            THEN tsLast.result = Some(g.rec)
            ELSE tsLast.result = Absent

\* C9 amended: storeToken then getToken with no intervening write, the read
\* answered by Redis, returns the stored record when the get is within the
\* access key's TTL window and before the record's expiresAt, and absent once
\* the TTL has elapsed or expiresAt is reached.
C9_RoundTripWhileLive ==
    ReadAfterStore("getToken") =>
        LET g == tsLast.ghost[1]
        IN  IF tsLast.readAt < g.accessUntil /\ LiveAt(g.rec, tsLast.readAt)
            THEN tsLast.result = Some(g.rec)
            ELSE tsLast.result = Absent

\* A record with a refresh token was stored and read back later, inside its
\* TTL window and before its expiresAt.
C9_Witness ==
    /\ ReadAfterStore("getToken")
    /\ tsLast.readAt > 0
    /\ tsLast.readAt < tsLast.ghost[1].accessUntil
    /\ LiveAt(tsLast.ghost[1].rec, tsLast.readAt)
    /\ tsLast.ghost[1].rec.refreshToken # Absent
    /\ tsLast.result = Some(tsLast.ghost[1].rec)

\* C10: after the access token has expired (access key TTL elapsed or
\* expiresAt passed) and before the refresh key's TTL elapses,
\* getRefreshToken still yields the stored refresh token.
C10_RefreshOutlivesAccess ==
    ReadAfterStore("getRefreshToken") =>
        LET g == tsLast.ghost[1]
        IN  ( /\ g.refreshUntil # Absent
              /\ tsLast.readAt >= g.accessUntil \/ ~LiveAt(g.rec, tsLast.readAt)
              /\ tsLast.readAt < g.refreshUntil[1] )
                => tsLast.result = g.rec.refreshToken

\* A step in which the storeToken call of caller p returns without throwing.
StoreReturns(p) ==
    /\ tsPc[p] \in { "st_access", "st_refresh" }
    /\ tsPc'[p] = "idle"
    /\ ~tsLast'.raised

AccessKeyOf(c) == generateAccessTokenKey(c.userId, c.clientId)

RefreshKeyOf(c) == generateRefreshTokenKey(c.userId, c.clientId)

\* C11: when a storeToken returns successfully (no other call in flight),
\* the access key and the refresh key of its pair both hold the encrypted
\* record of that call, with or without a refresh token and whatever the
\* keys held before.
C11_StoreWritesBothKeys ==
    [][ \A p \in Callers :
            (StoreReturns(p) /\ \A q \in Callers \ {p} : tsPc[q] = "idle") =>
                /\ tsStore'[AccessKeyOf(tsCall[p])] # Absent
                /\ tsStore'[RefreshKeyOf(tsCall[p])] # Absent
                /\ tsStore'[AccessKeyOf(tsCall[p])][1].value = tsCall[p].blob[1]
                /\ tsStore'[RefreshKeyOf(tsCall[p])][1].value = tsCall[p].blob[1]
      ]_vars

\* Two storeToken calls have run, both have returned without throwing, and
\* no call is in flight.
TwoStoresDone ==
    /\ tsOps = 2
    /\ tsLast.stored = 2
    /\ \A p \in Callers : tsPc[p] = "idle"

\* The value under key is the blob of a record that carries a refresh token.
HoldsRefreshToken(key) ==
    /\ tsStore[key] # Absent
    /\ Field(tsStore[key][1].value.data.text, "refreshToken") # Absent

\* C12: after two storeToken calls for one pair (each with a refresh token)
\* have completed in any interleaving, the access key and the refresh key
\* hold the blob of the same writer.
C12_LastWriteWins ==
    TwoStoresDone =>
        \A pr \in OnePair :
            ( /\ HoldsRefreshToken(generateAccessTokenKey(pr[1], pr[2]))
              /\ HoldsRefreshToken(generateRefreshTokenKey(pr[1], pr[2])) )
                => tsStore[generateAccessTokenKey(pr[1], pr[2])][1].value
                     = tsStore[generateRefreshTokenKey(pr[1], pr[2])][1].value

\* A step in which the getToken call of caller p reads, and either the read
\* fails or the value it finds is not one storeToken produced.
ReadsCorrupt(p) ==
    /\ tsPc[p] = "gt_read"
    /\ tsPc'[p] # "gt_read"
    /\ tsCall[p].op = "getToken"
    /\ \/ ~redisUp
       \/ /\ tsStore[AccessKeyOf(tsCall[p])] # Absent
          /\ tsStore[AccessKeyOf(tsCall[p])][1].value \in CorruptBlobs

\* C13: getToken never raises; on a failed read and on a stored value that is
\* malformed, undecryptable, not JSON or fails the schema it returns absent,
\* and a record it returns is a complete one.
C13_GetNeverRaises ==
    /\ [](tsLast.op = "getToken" =>
            /\ ~tsLast.raised
            /\ tsLast.result # Absent =>
                  JsonParse(Stringify(tsLast.result[1])) = tsLast.result)
    /\ [][ \A p \in Callers :
              ReadsCorrupt(p) =>
                  /\ tsPc'[p] = "idle"
                  /\ tsLast'.op = "getToken"
                  /\ tsLast'.result = Absent
                  /\ ~tsLast'.raised
         ]_vars

\* A getToken found a damaged value under the access key of a stored record
\* and returned absent.
C13_Witness ==
    /\ tsOps = 2
    /\ tsLast.stored = 1
    /\ tsLast.op = "getToken"
    /\ tsLast.readOk
    /\ tsLast.ghost = Absent
    /\ tsLast.result = Absent
    /\ ~tsLast.raised
    /\ \E pr \in OnePair :
          /\ tsStore[generateAccessTokenKey(pr[1], pr[2])] # Absent
          /\ tsStore[generateAccessTokenKey(pr[1], pr[2])][1].value \in CorruptBlobs

\* A step in which the getToken call of caller p returns after it had read an
\* expired record: Redis carried out both deletes and no other call wrote
\* the pair's keys between them.
ExpiredGetReturns(p) ==
    /\ tsPc[p] = "del_refresh"
    /\ tsPc'[p] = "idle"
    /\ tsCall[p].op = "getToken"
    /\ redisUp
    /\ tsOwner[<<tsCall[p].userId, tsCall[p].clientId>>] = p

Without(store, key) == [k \in TSKeys |-> IF k = key THEN Absent ELSE store[k]]

\* C15: deleteToken removes the access key and the refresh key of its pair
\* and leaves every other key unchanged; with Redis reachable it returns
\* without error, also on a pair that holds nothing, where it changes nothing.
C15_DeleteBothIdempotent ==
    [][ \A p \in Callers :
          tsCall[p].op = "deleteToken" =>
            /\ (tsPc[p] = "del_access" /\ tsPc'[p] = "del_refresh")
                  => tsStore' = Without(tsStore, AccessKeyOf(tsCall[p]))
            /\ (tsPc[p] = "del_refresh" /\ tsPc'[p] = "idle" /\ redisUp)
                  => /\ tsStore' = Without(tsStore, RefreshKeyOf(tsCall[p]))
                     /\ ~tsLast'.raised
                     /\ tsOwner[<<tsCall[p].userId, tsCall[p].clientId>>] = p
                          => tsStore'[AccessKeyOf(tsCall[p])] = Absent
            /\ ( /\ tsPc[p] \in { "del_access", "del_refresh" }
                 /\ tsPc'[p] # tsPc[p]
                 /\ tsStore[AccessKeyOf(tsCall[p])] = Absent
                 /\ tsStore[RefreshKeyOf(tsCall[p])] = Absent )
                  => tsStore' = tsStore
      ]_vars

\* A record was stored for one pair and deleted again without error while
\* the record of another pair stayed where it was.
C15_Witness ==
    /\ tsOps = 2
    /\ tsLast.stored = 1
    /\ tsLast.op = "deleteToken"
    /\ ~tsLast.raised
    /\ <<tsLast.userId, tsLast.clientId>> # EarlierPair
    /\ \A k \in TSKeys : tsStore[k] = IF PairOf(k) = EarlierPair THEN EarlierStore[k] ELSE Absent

\* The TTL in seconds a SETEX of this step gave key.
TtlGiven(key) == (tsStore'[key][1].expireAt - clock) \div MsPerSecond

\* C16: storeToken computes the access TTL as max(60, expiresAt - now)
\* seconds, never below 60; it writes the access key with that TTL and, when
\* it writes the refresh key, with that TTL + 86400, strictly greater.
C16_Ttls ==
    [][ \A p \in Callers :
          /\ (tsPc[p] = "idle" /\ tsPc'[p] = "st_access") =>
                LET remaining == tsCall'[p].rec[1].expiresAt - (clock \div MsPerSecond)
                    ttl == tsCall'[p].ttl
                IN  /\ ttl >= 60
                    /\ ttl >= remaining
                    /\ ttl = 60 \/ ttl = remaining
          /\ (tsPc[p] = "st_access" /\ tsPc'[p] # "st_access" /\ redisUp) =>
                TtlGiven(AccessKeyOf(tsCall[p])) = tsCall[p].ttl
          /\ (tsPc[p] = "st_refresh" /\ tsPc'[p] = "idle" /\ redisUp) =>
                /\ TtlGiven(RefreshKeyOf(tsCall[p])) = tsCall[p].ttl + 86400
                /\ TtlGiven(RefreshKeyOf(tsCall[p])) > tsCall[p].ttl
      ]_vars

\* A record already expired when it is stored has its access key written
\* with 60 seconds and its refresh key with 60 + 86400 seconds.
C16_Witness ==
    \E pr \in OnePair :
        /\ tsGhost[pr] # Absent
        /\ tsGhost[pr][1].refreshUntil # Absent
        /\ tsGhost[pr][1].rec.expiresAt * MsPerSecond < clock
        /\ tsGhost[pr][1].accessUntil = clock + 60 * MsPerSecond
        /\ tsGhost[pr][1].refreshUntil[1] = clock + (60 + 86400) * MsPerSecond
        /\ tsStore[generateAccessTokenKey(pr[1], pr[2])][1].expireAt
              = tsGhost[pr][1].accessUntil
        /\ tsStore[generateRefreshTokenKey(pr[1], pr[2])][1].expireAt
              = tsGhost[pr][1].refreshUntil[1]

\* C17: the IV drawn for an encryption is part of it: encrypting the
\* plaintext of a stored blob under another IV gives another ciphertext, and
\* a stored blob read with another IV in its place decrypts differently.
C17_IvIncorporated ==
    \A k \in TSKeys :
        tsStore[k] # Absent =>
            LET blob == tsStore[k][1].value
            IN  \A iv \in IVs \ {blob.iv} :
                    /\ encrypt(decrypt(blob)[1], iv).data # blob.data
                    /\ decrypt([blob EXCEPT !.iv = iv]) # decrypt(blob)

(***************************************************************************)
(* Properties of the AuthMiddleware.                                       *)
(***************************************************************************)
\* Every member of the list q is in the set S.
AllIn(q, S) == \A i \in DOMAIN q : q[i] \in S

\* C18: authorize(context, R) is true exactly when R is empty, or the context
\* holds 'admin:financial-data', or it holds 'read:financial-data' and every
\* member of R starts with 'read:', or every member of R is in its scopes.
C18_AuthorizeExactly ==
    mwLast.op = "authorize" =>
        LET held == SeqToSet(mwLast.scopes)
            R == mwLast.required
        IN  mwLast.result <=>
                \/ R = << >>
                \/ "admin:financial-data" \in held
                \/ /\ "read:financial-data" \in held
                   /\ \A i \in DOMAIN R : SubSeq(R[i], 1, 5) = "read:"
                \/ AllIn(R, held)

\* A context holding only the read-all scope was refused a requirement with
\* one read scope and one write scope.
C18_Witness ==
    /\ mwLast.op = "authorize"
    /\ mwLast.scopes = <<"read:financial-data">>
    /\ mwLast.required = <<"read:stock-prices", "write:financial-data">>
    /\ mwLast.result = FALSE

\* C19: if authorize(context, S) is true then authorize(context, S') is true
\* for every S' whose members are all members of S.
C19_AuthorizeMonotonic ==
    (mwLast.op = "authorize" /\ mwLast.result) =>
        \A sub \in ScopeLists :
            AllIn(sub, SeqToSet(mwLast.required)) => authorize(mwLast.scopes, sub)

\* A two-member requirement was granted through the read-all scope, and one
\* of its members alone is not held by the context.
C19_Witness ==
    /\ mwLast.op = "authorize"
    /\ mwLast.result
    /\ Len(mwLast.required) = 2
    /\ mwLast.required[1] # mwLast.required[2]
    /\ "admin:financial-data" \notin SeqToSet(mwLast.scopes)
    /\ ~AllIn(mwLast.required, SeqToSet(mwLast.scopes))

EndsWith(s, suffix) ==
    Len(s) >= Len(suffix) /\ SubSeq(s, Len(s) - Len(suffix) + 1, Len(s)) = suffix

\* The context is the complete one of the claims c.
ContextOf(context, c) ==
    /\ context.userId = c.sub[1]
    /\ context.clientId = c.aud[1].value
    /\ context.issuedAt = c.iat[1]
    /\ context.expiresAt = c.exp[1]
    /\ context.tokenType = "Bearer"
    /\ \A i \in DOMAIN context.scopes : context.scopes[i] \in ScopeNames

\* The token t, presented at the instant ms, is signed, issued by the
\* configured issuer, active, not expired, and carries the required claims.
Verified(t, ms) ==
    LET c == Jwts[t].claims
    IN  /\ Jwts[t].sigOk
        /\ c.iss = Some(Issuer)
        /\ c.sub # Absent /\ c.aud # Absent /\ c.iat # Absent /\ c.exp # Absent
        /\ c.exp[1] * MsPerSecond > ms
        /\ c.nbf # Absent => c.nbf[1] * MsPerSecond <= ms

\* C20: authenticate never raises; a failure has success=false, a reason
\* string and no context; a success carries the complete context of the
\* verified claims of the token presented.
C20_AuthenticateTotal ==
    mwLast.op = "authenticate" =>
        LET r == mwLast.result
        IN  /\ ~r.raised
            /\ ~r.success =>
                  r.context = Absent /\ r.error # Absent /\ r.error[1] # ""
            /\ r.success =>
                  /\ r.context # Absent
                  /\ r.error = Absent
                  /\ \E t \in TokenNames :
                        /\ \E h \in mwLast.request : EndsWith(h[2], t)
                        /\ Verified(t, mwLast.at)
                        /\ ContextOf(r.context[1], Jwts[t].claims)

\* A request whose token had expired was denied with a reason and no context.
C20_Witness ==
    /\ mwLast.op = "authenticate"
    /\ mwLast.request = { <<"authorization", "Bearer tShort">> }
    /\ mwLast.at >= 10 * MsPerSecond
    /\ ~mwLast.result.success
    /\ mwLast.result.context = Absent
    /\ mwLast.result.error # Absent

(***************************************************************************)
(* Properties of the middleware of createMiddleware.                       *)
(***************************************************************************)
\* A middleware made with required = true (the default) has returned.
RequiredMwDone ==
    /\ mwLast.op = "middleware"
    /\ mwLast.result.options.required # Some(FALSE)

\* The request presents the token t as 'authorization: Bearer t', and t is
\* one that passes every test of the pipeline other than that of its expiry.
PresentsSound(request, t) ==
    LET c == Jwts[t].claims
    IN  /\ request = { <<"authorization", "Bearer " \o t>> }
        /\ Jwts[t].sigOk /\ Jwts[t].isObject
        /\ c.iss = Some(Issuer)
        /\ c.sub # Absent /\ c.aud # Absent /\ c.exp # Absent
        /\ c.aud[1].isString
        /\ c.nbf = Absent

\* C21: whenever the bearer token presented is expired, the pipeline denies
\* with the reason 'Token has expired', be the expiry found by the token
\* verification or on the built context.
C21_ExpiredReason ==
    RequiredMwDone =>
        \A t \in TokenNames :
            ( /\ PresentsSound(mwLast.request, t)
              /\ Jwts[t].claims.exp[1] * MsPerSecond <= mwLast.at )
                => /\ ~mwLast.result.reply.authorized
                   /\ mwLast.result.reply.error = Some("Token has expired")

\* The reply of a required middleware is authorized only after a successful
\* authenticate, with a context not expired at the return and, when scopes
\* are validated, authorized for them; it then carries that context.
GrantJustified ==
    LET d == mwLast.result
        scopes == IF d.options.scopes = Absent THEN << >> ELSE d.options.scopes[1]
        validate == d.options.validateScopes # Some(FALSE)
    IN  d.reply.authorized =>
            /\ d.auth # Absent
            /\ d.auth[1].success
            /\ d.auth[1].context # Absent
            /\ d.auth[1].context[1].expiresAt * MsPerSecond > mwLast.at
            /\ (validate /\ scopes # << >>) =>
                  authorize(d.auth[1].context[1].scopes, scopes)
            /\ d.reply.context = d.auth[1].context

\* C22: with required = true the middleware authorizes only an
\* authenticated, unexpired and (when scopes are validated) authorized
\* context and returns it; with required = false it authorizes every request
\* with no context and without authenticating.
C22_MiddlewareGrants ==
    mwLast.op = "middleware" =>
        IF mwLast.result.options.required = Some(FALSE)
        THEN /\ mwLast.result.reply = MiddlewareReply(TRUE, Absent, Absent)
             /\ mwLast.result.auth = Absent
        ELSE GrantJustified

\* A required middleware with a validated scope requirement authorized a
\* request some time after it had authenticated it.
C22_Witness ==
    /\ RequiredMwDone
    /\ mwLast.result.reply.authorized
    /\ mwLast.result.reply.context # Absent
    /\ mwLast.result.options.scopes = Some(<<"read:stock-prices">>)
    /\ mwLast.result.options.validateScopes = Absent
    /\ mwLast.at > mwLast.result.authAt

\* C23: a context whose expiresAt equals the current time in seconds is
\* expired: the middleware denies the request with 'Token has expired'.
C23_ExpiredAtEquality ==
    ( /\ RequiredMwDone
      /\ mwLast.result.auth[1].success
      /\ mwLast.result.auth[1].context[1].expiresAt = mwLast.at \div MsPerSecond )
        => /\ ~mwLast.result.reply.authorized
           /\ mwLast.result.reply.error = Some("Token has expired")

\* A request authenticated before its token's expiresAt was denied at the
\* second of its expiresAt.
C23_Witness ==
    /\ RequiredMwDone
    /\ mwLast.result.auth[1].success
    /\ mwLast.result.auth[1].context[1].expiresAt * MsPerSecond = mwLast.at
    /\ mwLast.result.authAt < mwLast.at
    /\ mwLast.result.reply = MiddlewareReply(FALSE, Absent, Some("Token has expired"))

(***************************************************************************)
(* Properties of the token lifetime utilities.                             *)
(***************************************************************************)
\* The seconds a context still has at the time of the last call, never
\* less than zero.
Remaining ==
    LET left == mwLast.result.context.expiresAt - mwLast.at \div MsPerSecond
    IN  IF left > 0 THEN left ELSE 0

\* The threshold the last shouldRefreshToken call compared with.
ThresholdUsed ==
    IF mwLast.result.threshold = Absent THEN 300 ELSE mwLast.result.threshold[1]

\* C24: shouldRefreshToken(context, threshold) is true exactly when the
\* remaining lifetime max(0, expiresAt - now) is at most the threshold, and
\* getTokenLifetime returns 0 for every expired context.
C24_RefreshAndLifetime ==
    /\ mwLast.op = "shouldRefreshToken" =>
          (mwLast.result.value <=> (Remaining <= ThresholdUsed))
    /\ ( /\ mwLast.op = "getTokenLifetime"
         /\ mwLast.result.context.expiresAt <= mwLast.at \div MsPerSecond )
          => mwLast.result.value = 0

\* A refresh was advised with the threshold 0 for a context expired for some
\* time: its lifetime was clamped to 0, which equals the threshold.
C24_Witness ==
    /\ mwLast.op = "shouldRefreshToken"
    /\ mwLast.result.threshold = Some(0)
    /\ mwLast.result.context.expiresAt < mwLast.at \div MsPerSecond
    /\ mwLast.result.value

(***************************************************************************)
(* Properties of the header parsing of authenticate.                       *)
(***************************************************************************)
\* The value is 'Bearer', exactly one space, then a token.
ExactBearer(value) ==
    /\ StartsWith(value, "Bearer ")
    /\ Len(value) > 7
    /\ ~IsSpace(SubSeq(value, 8, 8))

\* C25: authenticate finds the authorization header whatever the letter case
\* of its name, accepts its value only when it is 'Bearer', exactly one
\* space, then the token, and fails every other value with the reason
\* 'Missing or invalid Authorization header'.
C25_HeaderParsing ==
    mwLast.op = "authenticate" =>
        \A n \in HeaderNames, v \in HeaderValues :
            mwLast.request = { <<n, v>> } =>
                ( ExactBearer(v) <=>
                    mwLast.result.error # Some("Missing or invalid Authorization header") )

(***************************************************************************)
(* Properties of the OAuthClient.                                          *)
(***************************************************************************)
\* The call is an exchangeCodeForToken given a state other than the one
\* generated with the PKCE parameters of its flow.
StateMismatch(call) ==
    /\ call.op = "exchangeCodeForToken"
    /\ call.pkce # Absent
    /\ call.state # Some(call.pkce[1].state)

\* C26: in an authorization attempt, if the state received with the
\* authorization response differs from the state generated with the PKCE
\* parameters, the attempt fails with a security error and no token request
\* is ever sent to the token endpoint.
C26_StateMismatchFatal ==
    /\ oaCall # Absent => (StateMismatch(oaCall[1]) => oaCall[1].sent = 0)
    /\ StateMismatch(oaLast) =>
          /\ oaLast.sent = 0
          /\ ~oaLast.result[1].ok
          /\ oaLast.result[1].class = "SecurityError"

\* The cause of a failed exchangeCodeForToken or refreshToken: the request
\* got no response, got an error response, or got a success response that
\* the token schema rejects; "none" when the call succeeds.
CauseOf(outcome) ==
    CASE outcome.kind = "transport" -> "network"
      [] outcome.kind = "rejected" -> "oauth"
      [] outcome.kind = "success" /\ ~AccessTokenSchemaOk(outcome.data) -> "validation"
      [] OTHER -> "none"

\* The error response carries a standard error envelope.
StandardEnvelope(data) == data.error # Absent /\ data.error[1] \in OAuthErrorCodes

\* C27: exchangeCodeForToken and refreshToken report their three failure
\* causes as three distinguishable errors: the error raised for one cause is
\* never the error raised for another, and the error raised for an OAuth
\* error response carries the received error and error_description.
C27_DistinctFailures ==
    ( /\ oaLast.op \in { "exchangeCodeForToken", "refreshToken" }
      /\ CauseOf(oaLast.outcome[1]) # "none" )
        => /\ ~oaLast.result[1].ok
           /\ \A other \in HttpOutcomes :
                CauseOf(other) \notin { "none", CauseOf(oaLast.outcome[1]) }
                    => CallResult(oaLast.op, other) # oaLast.result[1]
           /\ ( /\ CauseOf(oaLast.outcome[1]) = "oauth"
                /\ StandardEnvelope(oaLast.outcome[1].data) )
                => /\ Includes(oaLast.result[1].message, oaLast.outcome[1].data.error[1])
                   /\ oaLast.outcome[1].data.error_description # Absent =>
                        Includes(oaLast.result[1].message,
                                 oaLast.outcome[1].data.error_description[1])

\* C28: each call of exchangeCodeForToken, refreshToken, revokeToken or
\* getUserInfo sends at most one HTTP request: after a failed request the
\* client raises an error to its caller and never sends the request again.
C28_NoRetry ==
    /\ oaCall # Absent => oaCall[1].sent <= 1
    /\ oaLast.op # "none" =>
          /\ oaLast.sent <= 1
          /\ oaLast.outcome[1].kind # "success" => ~oaLast.result[1].ok

\* A call whose only request met a transport failure has raised its error,
\* and the next call has sent its own request.
C28_Witness ==
    /\ oaLast.op # "none"
    /\ oaLast.outcome[1].kind = "transport"
    /\ oaLast.sent = 1
    /\ ~oaLast.result[1].ok
    /\ oaCall # Absent
    /\ oaCall[1].sent = 1

(***************************************************************************)
(* Properties of the Logger.                                               *)
(***************************************************************************)
\* The name of the field is password-, token-, secret- or key-shaped.
SensitiveShaped(key) ==
    \E word \in { "password", "token", "secret", "key" } :
        Includes(ToLowerCase(key), word)

\* Every sensitive field of the context, at the top level or inside an
\* object that is not itself redacted, has the value '[REDACTED]'.
Redacted(context) ==
    \A e \in context :
        IF SensitiveShaped(e[1])
        THEN e[2] = Str("[REDACTED]")
        ELSE \A f \in e[2].fields : SensitiveShaped(f[1]) => f[2] = "[REDACTED]"

\* C29: every log entry written has the value of every password-, token-,
\* secret- or key-shaped field redacted, wherever the field occurs in the
\* logged context (top level or nested inside another object) and also when
\* the logged argument is an Error.
C29_Redaction ==
    \A line \in lgSink :
        line.shown.context # Absent => Redacted(line.shown.context[1])

(***************************************************************************)
(* Properties of getToken running beside storeToken.                       *)
(***************************************************************************)
\* Caller p's getToken, having read an expired record, carries out one of
\* its two deletes.
GetTokenDeletes(p) ==
    /\ tsCall[p].op = "getToken"
    /\ tsPc[p] \in { "del_access", "del_refresh" }
    /\ tsPc'[p] # tsPc[p]
    /\ redisUp

\* A storeToken of the pair has returned, nothing has written the pair's
\* keys since, and its record has not expired.
HoldsLiveRecord(pr) ==
    /\ tsGhost[pr] # Absent
    /\ LiveAt(tsGhost[pr][1].rec, clock)

\* C30: a getToken(u, c) that found an expired record never removes a record
\* written by a storeToken(u, c) that completed before the getToken's delete
\* step: a record whose store call has returned stays retrievable until it
\* expires or deleteToken is called.
C30_GetKeepsStoredRecord ==
    [][ \A p \in Callers :
            ( /\ GetTokenDeletes(p)
              /\ HoldsLiveRecord(<<tsCall[p].userId, tsCall[p].clientId>>) )
                => /\ tsStore'[AccessKeyOf(tsCall[p])] # Absent
                   /\ tsStore'[AccessKeyOf(tsCall[p])] = tsStore[AccessKeyOf(tsCall[p])]
      ]_vars

(***************************************************************************)
(* Properties of a storeToken that fails.                                  *)
(***************************************************************************)
\* Caller p's storeToken throws 'Failed to store authentication token' at
\* this step.
StoreFails(p) ==
    /\ tsCall[p].op = "store"
    /\ tsPc[p] \in { "st_access", "st_refresh" }
    /\ tsPc'[p] = "idle"
    /\ tsLast'.raised

\* The key holds the encrypted record of the call c.
HoldsRecordOf(store, key, c) == store[key] # Absent /\ store[key][1].value = c.blob[1]

\* C31: a storeToken call that fails with 'Failed to store authentication
\* token' leaves neither the access key nor the refresh key of its pair
\* holding the new record, whichever of its writes failed.
C31_FailedStoreWritesNothing ==
    [][ \A p \in Callers :
            StoreFails(p) =>
                /\ ~HoldsRecordOf(tsStore', AccessKeyOf(tsCall[p]), tsCall[p])
                /\ ~HoldsRecordOf(tsStore', RefreshKeyOf(tsCall[p]), tsCall[p])
      ]_vars

(***************************************************************************)
(* Properties of the keys of different pairs.                              *)
(***************************************************************************)
\* Caller p's storeToken or deleteToken carries out one of its Redis
\* commands at this step.
StoreOrDeleteActs(p) ==
    /\ tsCall[p].op \in { "store", "deleteToken" }
    /\ tsPc[p] # "idle"
    /\ tsPc'[p] # tsPc[p]

\* C32: records of different (userId, clientId) pairs never share a storage
\* key, also for identifiers that contain ':': a storeToken or deleteToken
\* for one pair never changes what getToken reads for a different pair.
C32_PairsIsolated ==
    [][ \A p \in Callers, q \in TSPairs :
            ( /\ StoreOrDeleteActs(p)
              /\ q # <<tsCall[p].userId, tsCall[p].clientId>> )
                => Get(tsStore', generateAccessTokenKey(q[1], q[2]))
                     = Get(tsStore, generateAccessTokenKey(q[1], q[2]))
      ]_vars

(***************************************************************************)
(* Properties of getRateLimitStatus.                                       *)
(***************************************************************************)
\* Whether a checkRateLimit served now on the sorted set z, with these
\* maxRequests and windowMs, is allowed.
WouldAllow(z, maxRequests, windowMs) ==
    LuaScript(z, NoExpire, clock - windowMs, clock, maxRequests, windowMs, clock).reply[1] = 1

\* C33: getRateLimitStatus consumes no quota: it never adds a timestamp to
\* the window, and for every windowMs and maxRequests of a later
\* checkRateLimit the check is allowed or rejected as it would have been
\* had getRateLimitStatus not been called.
C33_StatusConsumesNothing ==
    [][ \A p \in Callers :
            (rlPc[p] \in { "status_prune", "status_count" } /\ rlPc'[p] # rlPc[p])
                => /\ rlZset'[rlCall[p].key] \subseteq rlZset[rlCall[p].key]
                   /\ \A maxRequests \in 1..MaxLimit, windowMs \in CustomWindows :
                        WouldAllow(rlZset'[rlCall[p].key], maxRequests, windowMs)
                          = WouldAllow(rlZset[rlCall[p].key], maxRequests, windowMs)
      ]_vars

(***************************************************************************)
(* Properties of the AuthManager.                                          *)
(***************************************************************************)
\* C34: with type 'bearer', authenticate(token) returns true only when a
\* secret is configured and a token equal to it is supplied; it returns
\* false when no token is supplied, whether or not a secret is configured.
C34_BearerNeedsSecretAndToken ==
    ( /\ amLast.n > 0
      /\ amConfig[1].type = "bearer" )
        => /\ amLast.outcome[1].ok
           /\ amLast.outcome[1].value =>
                /\ amConfig[1].secret # Absent
                /\ amLast.token # Absent
                /\ amLast.token = amConfig[1].secret
           /\ amLast.token = Absent => ~amLast.outcome[1].value


(***************************************************************************)
(* AsyncQueue and retry.                                                   *)
(***************************************************************************)
\* The operations invoked whose own promise has not settled.
StartedUnsettled == { id \in OpIds : aqState[id] = "started" }

BoundedQueue == aqMax # Absent /\ aqMax[1] >= 1

\* C35: in every reachable state of an AsyncQueue built with maxConcurrency
\* m >= 1, the operations that have started and not yet settled number at
\* most m, whatever the add calls and the order of completions and failures.
C35_StartedAtMostMax ==
    BoundedQueue => Cardinality(StartedUnsettled) <= aqMax[1]

\* As many operations run as the queue allows, one more waits, and one has
\* already failed and released its place.
C35_Witness ==
    /\ BoundedQueue
    /\ Cardinality(StartedUnsettled) = aqMax[1]
    /\ aqQueue # <<>>
    /\ \E id \in OpIds : aqState[id] = "done" /\ ~aqOutcome[id][1].ok

\* Operations were invoked in the order they were added.
StartedInOrder ==
    \A i, j \in 1..Len(aqStarted) : i < j => aqStarted[i] < aqStarted[j]

\* The promise add returned settled with the operation's own result or error.
OwnSettlement ==
    \A id \in OpIds :
        aqPromise[id] # Absent =>
            /\ aqPromise[id] = aqOutcome[id]
            /\ aqPromise[id][1].by = id

\* C36: in an AsyncQueue with maxConcurrency >= 1 whose operations all
\* settle, every operation passed to add is eventually started, operations
\* start in the order they were added, the promise add returned settles with
\* that operation's own result or error, and a rejection never keeps later
\* operations from running.
C36_EveryOperationRuns ==
    /\ [](BoundedQueue => StartedInOrder /\ OwnSettlement)
    /\ \A id \in OpIds :
          (BoundedQueue /\ aqState[id] # "new")
              ~> (aqState[id] \notin {"new", "queued"} /\ aqPromise[id] # Absent)

\* With one operation at a time, the first one rejected, the others waited
\* and then ran in order, and the second one's promise fulfilled.
C36_Witness ==
    /\ aqMax = Some(1)
    /\ aqStarted = [i \in OpIds |-> i]
    /\ aqPromise[1] = Some([ok |-> FALSE, by |-> 1])
    /\ aqPromise[2] = Some([ok |-> TRUE, by |-> 2])

ValidRequest(message) ==
    /\ message.parses
    /\ message.jsonrpc
    /\ message.id.t \in {"num", "str"}
    /\ message.method # Absent

\* C38: for every sequence of start and stop calls, a request that arrives
\* on the input is processed and answered only while the server is running,
\* and each arriving request is processed at most once: no request is
\* answered while the server is stopped and none is answered twice, also
\* after a stop and after a later restart.
C38_AnsweredOnlyWhileRunningOnce ==
    \A i \in 1..Len(msLog) :
        ValidRequest(msLog[i].message) =>
        /\ msLog[i].handled <= 1
        /\ Len(msLog[i].answers) <= 1
        /\ msLog[i].handled > 0 => msLog[i].running
        /\ \A k \in 1..Len(msLog[i].answers) : msLog[i].answers[k].running

\* The response the claim names for a request.
NamedResponse(message, response) ==
    CASE message.method[1] \in {"initialize", "tools/list"} -> response.kind = "result"
      [] message.method[1] = "tools/call" ->
            IF message.name = Absent THEN TRUE
            ELSE IF message.name[1] \notin ToolNames
            THEN response.kind = "error" /\ response.code = MCP_TOOL_ERROR
            ELSE \/ response.kind = "result"
                 \/ response.kind = "error" /\ response.code = MCP_TOOL_ERROR
      [] OTHER -> response.kind = "error" /\ response.code = METHOD_NOT_FOUND

\* C39: for every message that is a valid JSON-RPC request (jsonrpc '2.0',
\* string or numeric id, string method) the server sends exactly one
\* response, which carries the request's id: a result for initialize,
\* tools/list and a successful tools/call, METHOD_NOT_FOUND for an unknown
\* method, a tool error for an unknown tool or a handler that throws.
\* Stated of the requests one listener handled, once no handler is awaited.
C39_OneResponsePerRequest ==
    \A i \in 1..Len(msLog) :
        (ValidRequest(msLog[i].message) /\ msLog[i].handled = 1 /\ msLog[i].pending = 0) =>
            /\ Len(msLog[i].answers) = 1
            /\ msLog[i].answers[1].response.id = msLog[i].message.id
            /\ NamedResponse(msLog[i].message, msLog[i].answers[1].response)

\* C40: after registerTool(tool, h2) for a name already registered with
\* handler h1, tools/list shows the name once with the new definition and
\* every later tools/call of that name is executed by h2, not by h1.
\* Stated of the handler chosen for each call, against the one registered
\* last for the name when the call arrived; the tools map holds one
\* definition per name, the one set last.
C40_LatestHandlerExecutes ==
    \A i \in 1..Len(msLog) :
        msLog[i].handler # Absent => msLog[i].handler = msLog[i].latest

====
